---- MODULE Spec2Model ----
(***************************************************************************)
(* gh-backup: the export orchestrator (gh_backup/exporter.py run_export),  *)
(* the per-repository operation (_export_repo, _clone_repo,                *)
(* _export_repo_issues) running on a ThreadPoolExecutor, and the archival  *)
(* phase (gh_backup/compress.py compress_directory).                       *)
(***************************************************************************)
EXTENDS Integers, Sequences, FiniteSets, TLC

\* ------------------------------------------------------------------ bounds
MaxRepos == 2
MaxWorkers == 2
MaxArchiveBytes == 1
MaxTokenLen == 2
MaxOutputLen == 2
MaxListing == 2
MaxDepth == 2

\* ------------------------------------------------------- program constants
\* stop_after_attempt(3) of the clone's Retrying
CloneAttempts == 3
\* stop_after_attempt(3) of the issue/PR export's Retrying
FetchAttempts == 3
\* the range of the export command's --workers option
WorkersMin == 1
WorkersMax == 32

RepoIds == 1..MaxRepos

VARIABLES
    cfg,          \* ExportConfig: the fields read before and during dispatch
    opts,         \* ExportConfig: compress and keep_dir, drawn where run_export reads them
    nrepos,       \* len(repos) after list_repos and _filter_repos
    mainpc,       \* position of the thread running run_export
    exc,          \* the exception run_export is propagating / has raised
    submitted,    \* number of executor.submit calls made so far
    results,      \* run_export's local list `results`
    stats,        \* ExportStats
    export_dir,   \* the run directory on disk, and how much of its layout exists
    archive,      \* the file at archive_path
    stop_event,   \* threading.Event shared by all operations
    queue,        \* the executor's work queue (submitted, not yet started)
    pc,           \* per repository: position of its _export_repo call
    attempt,      \* per repository: tenacity's attempt_number of the current loop
    outcome,      \* per repository: tenacity's outcome of the attempt being retried
    issues,       \* per repository: len(issues) held by _export_repo_issues
    result,       \* per repository: what its future holds
    dest,         \* per repository: repos/<name>.git on disk
    issue_files,  \* per repository: issues/<name>/ on disk
    tk,           \* the texts of one clone step: token, command, messages (see below)
    ls,           \* one listing and its filtering (see below)
    ar,           \* one source tree and its archive (see below)
    fs,           \* the paths two operations touch (see below)
    pg,           \* the progress tasks of two operations (see below)
    exit_code     \* the export command's exit code, once it has exited

mainvars == <<fs, pg, tk, ls, ar, exit_code, cfg, opts, nrepos, mainpc, exc, submitted, results, stats, export_dir, archive>>
opvars == <<pc, attempt, outcome, issues, result, dest, issue_files>>
vars == <<fs, pg, tk, ls, ar, exit_code, cfg, opts, nrepos, mainpc, exc, submitted, results, stats, export_dir, archive,
          stop_event, queue, pc, attempt, outcome, issues, result, dest, issue_files>>

\* ------------------------------------------------------------ data model
ExportConfigs ==
    [workers : 0..MaxWorkers, git_gc : BOOLEAN, skip_issues : BOOLEAN, dry_run : BOOLEAN]

\* config.compress and config.keep_dir are read once, after the aggregation, and by
\* nothing else: they are inputs of the step that reads them
UnreadOptions == [read |-> FALSE, compress |-> FALSE, keep_dir |-> FALSE]
ArchiveOptions(c, k) == [read |-> TRUE, compress |-> c, keep_dir |-> k]

ExportStats ==
    [repos_total |-> 0, repos_cloned |-> 0, repos_failed |-> 0,
     issues_exported |-> 0, pulls_exported |-> 0, bytes_compressed |-> 0,
     failed_repos |-> <<>>]

NoResult == [kind |-> "none"]

ClonePath(r) == <<"repos", r>>

RepoResult(r, success, clone_path, issues_count, pulls_count, error) ==
    [kind |-> "RepoResult", repo |-> r, success |-> success,
     clone_path |-> clone_path, issues_count |-> issues_count,
     pulls_count |-> pulls_count, error |-> error]

\* a future whose call raised instead of returning
RaisedFuture(error) == [kind |-> "exception", error |-> error]

\* variant: a success carries an error text
SuccessResult_WithError(r, ic, pcnt) == RepoResult(r, TRUE, ClonePath(r), ic, pcnt, "Unexpected")

SuccessResult(r, ic, pcnt) == RepoResult(r, TRUE, ClonePath(r), ic, pcnt, "None")
CancelledResult(r) == RepoResult(r, FALSE, "None", 0, 0, "Cancelled")
FailedResult(r, e) == RepoResult(r, FALSE, "None", 0, 0, e)

\* what the remote holds for repository r: fetch_issues returns IssueCount(r) records
\* and fetch_pulls PullCount(r) records (both non-zero and different)
IssueCount(r) == r
PullCount(r) == r + MaxRepos

\* positions of an operation at which an external process is running
ProcessPcs == {"clone_run", "gc_run", "fetch_issues", "fetch_pulls"}
\* positions of an operation that occupies a worker thread
ActivePcs == ProcessPcs \cup
    {"clone_check", "clone_sleep", "gc_check", "gc_warn", "iss_check", "iss_check2",
     "iss_sleep"}

ActiveCount == Cardinality({r \in RepoIds : pc[r] \in ActivePcs})

\* the texts of the clone step are not followed in a run of the orchestrator
NoClone == [pc |-> "off"]
\* nor are the attributes of the listed repositories
NoListing == [pc |-> "off"]
\* nor the members of the archive
NoArchive == [pc |-> "off"]
\* nor the paths of what the operations touch
NoPaths == [pc |-> "off"]
\* nor the progress display
NoProgress == [pc |-> "off"]

\* run_export is entered with a configuration of the set C
RunInit(C) ==
    /\ cfg \in C
    /\ exit_code = <<>>
    /\ opts = UnreadOptions
    /\ nrepos = 0
    /\ mainpc = "list"
    /\ exc = "None"
    /\ submitted = 0
    /\ results = <<>>
    /\ stats = ExportStats
    /\ export_dir = "absent"
    /\ archive = "absent"
    /\ stop_event = FALSE
    /\ queue = <<>>
    /\ pc = [r \in RepoIds |-> "unsubmitted"]
    /\ attempt = [r \in RepoIds |-> 0]
    /\ outcome = [r \in RepoIds |-> "None"]
    /\ issues = [r \in RepoIds |-> 0]
    /\ result = [r \in RepoIds |-> NoResult]
    /\ dest = [r \in RepoIds |-> "absent"]
    /\ issue_files = [r \in RepoIds |-> "absent"]

\* the side records are not followed
Unfollowed == fs = NoPaths /\ pg = NoProgress

Init == RunInit(ExportConfigs) /\ tk = NoClone /\ ls = NoListing /\ ar = NoArchive /\ Unfollowed

\* ------------------------------------------------- the worker pool
\* ThreadPoolExecutor(max_workers=config.workers): a queued call starts only on a
\* free thread, and the pool never has more than max_workers threads
\* variant: a call starts while the pool is already full
WorkerAvailable_Inclusive == ActiveCount <= cfg.workers

\* variant: no thread of the pool ever takes a call
WorkerAvailable_Never == FALSE

WorkerAvailable == ActiveCount < cfg.workers

\* ------------------------------------------------- retry policy (tenacity)
IsCalledProcessError(o) == o = "cpe"

\* variant: one attempt more than the limit is made
RetryDecision_OneMore(n, o, limit) ==
    IF o = "ok" THEN "return"
    ELSE IF ~IsCalledProcessError(o) THEN "reraise"
    ELSE IF n > limit THEN "reraise"
    ELSE "sleep"

\* Retrying.iter after an attempt that ended with outcome o: stop_after_attempt(limit),
\* retry_if_exception_type(CalledProcessError), reraise=True
RetryDecision(n, o, limit) ==
    IF o = "ok" THEN "return"
    ELSE IF ~IsCalledProcessError(o) THEN "reraise"
    ELSE IF n >= limit THEN "reraise"
    ELSE "sleep"

\* variant: the wait always lasts its whole duration
SleepOrCancel_Whole(stop) == "timeout"

\* _sleep_or_cancel: stop_event.wait(timeout) returns True at once when the event is set
SleepOrCancel(stop) == IF stop THEN "ExportCancelled" ELSE "timeout"

\* ------------------------------------------------- _export_repo's handlers
\* except ExportCancelled
OnCancelled(r) == CancelledResult(r)
\* variant: the step's exception leaves _export_repo
OnStepException_Raise(r, e) == RaisedFuture(e)

\* except Exception as e
OnStepException(r, e) == FailedResult(r, e)
\* variant: a failed issue/PR export fails the repository
OnIssuesException_Fail(r) == FailedResult(r, "Unexpected")

\* the inner except Exception around _export_repo_issues: warning, counts stay zero
OnIssuesException(r) == SuccessResult(r, 0, 0)
\* variant: a failed gc fails the repository
AfterGc_FailOnError(ok) == IF ok THEN "continue" ELSE "fail"

\* the inner except Exception around _gc_repo: warning, go on
AfterGc(ok) == "continue"

\* the operation returns (or raises): its future is done and its thread is free
Finish(r, res) ==
    /\ pc' = [pc EXCEPT ![r] = "done"]
    /\ result' = [result EXCEPT ![r] = res]
    /\ attempt' = [attempt EXCEPT ![r] = 0]
    /\ outcome' = [outcome EXCEPT ![r] = "None"]
    /\ issues' = [issues EXCEPT ![r] = 0]

\* variant: the issue/PR step runs whatever config.skip_issues says
EnterIssues_Always(r, mk) ==
    IF mk
    THEN /\ issue_files' = [issue_files EXCEPT ![r] = "dir"]
         /\ pc' = [pc EXCEPT ![r] = "iss_check"]
         /\ attempt' = [attempt EXCEPT ![r] = 1]
         /\ UNCHANGED <<outcome, issues, result>>
    ELSE Finish(r, OnIssuesException(r)) /\ UNCHANGED issue_files

\* the issue/PR step is reached: if config.skip_issues the operation is done; else
\* _export_repo_issues makes issues/<name>/ (mk: whether mkdir succeeds) and enters its
\* retry loop
EnterIssues(r, mk) ==
    IF cfg.skip_issues
    THEN Finish(r, SuccessResult(r, 0, 0)) /\ UNCHANGED issue_files
    ELSE IF mk
         THEN /\ issue_files' = [issue_files EXCEPT ![r] = "dir"]
              /\ pc' = [pc EXCEPT ![r] = "iss_check"]
              /\ attempt' = [attempt EXCEPT ![r] = 1]
              /\ UNCHANGED <<outcome, issues, result>>
         ELSE Finish(r, OnIssuesException(r)) /\ UNCHANGED issue_files

\* variant: the gc block is passed over
AfterClone_NoGc(r, mk) == EnterIssues(r, mk)

\* after a successful clone: the gc checkpoint when config.git_gc, else the issue/PR step
AfterClone(r, mk) ==
    IF cfg.git_gc
    THEN /\ pc' = [pc EXCEPT ![r] = "gc_check"]
         /\ attempt' = [attempt EXCEPT ![r] = 0]
         /\ UNCHANGED <<outcome, issues, result, issue_files>>
    ELSE EnterIssues(r, mk)

\* a worker thread takes the oldest queued call and enters _export_repo / _clone_repo
StartOp(r) ==
    /\ queue # <<>>
    /\ Head(queue) = r
    /\ WorkerAvailable
    /\ queue' = Tail(queue)
    /\ pc' = [pc EXCEPT ![r] = "clone_check"]
    /\ attempt' = [attempt EXCEPT ![r] = 1]
    /\ UNCHANGED <<mainvars, stop_event, outcome, issues, result, dest, issue_files>>

\* variant: git is run without the checkpoint
CloneCheck_NoCheckpoint(r) ==
    /\ pc[r] = "clone_check"
    /\ pc' = [pc EXCEPT ![r] = "clone_run"]
    /\ UNCHANGED <<attempt, outcome, issues, result>>
    /\ UNCHANGED <<mainvars, stop_event, queue, dest, issue_files>>

\* with attempt: if stop_event.is_set(): raise ExportCancelled(); subprocess.run(...)
CloneCheck(r) ==
    /\ pc[r] = "clone_check"
    /\ IF stop_event
       THEN Finish(r, OnCancelled(r))
       ELSE /\ pc' = [pc EXCEPT ![r] = "clone_run"]
            /\ UNCHANGED <<attempt, outcome, issues, result>>
    /\ UNCHANGED <<mainvars, stop_event, queue, dest, issue_files>>

\* the git process exits 0, exits non-zero (CalledProcessError), or cannot be run
CloneOutcomes == {"ok", "cpe", "oserror"}

\* the git process ends; a failed clone may leave a partial destination directory
CloneDone(r) ==
    /\ pc[r] = "clone_run"
    /\ \E o \in CloneOutcomes, leftover \in {"absent", "partial"}, mk \in BOOLEAN :
         LET d == RetryDecision(attempt[r], o, CloneAttempts) IN
         CASE d = "return" ->
                /\ dest' = [dest EXCEPT ![r] = "complete"]
                /\ AfterClone(r, mk)
           [] d = "sleep" ->
                /\ dest' = [dest EXCEPT ![r] = leftover]
                /\ pc' = [pc EXCEPT ![r] = "clone_sleep"]
                /\ outcome' = [outcome EXCEPT ![r] = o]
                /\ UNCHANGED <<attempt, issues, result, issue_files>>
           [] d = "reraise" /\ IsCalledProcessError(o) ->
                \* except CalledProcessError: rmtree(dest), redact, raise
                /\ dest' = [dest EXCEPT ![r] = "absent"]
                /\ Finish(r, OnStepException(r, "CloneError"))
                /\ UNCHANGED issue_files
           [] OTHER ->
                /\ UNCHANGED <<dest, issue_files>>
                /\ Finish(r, OnStepException(r, "Unexpected"))
    /\ UNCHANGED <<mainvars, stop_event, queue>>

\* the backoff wait between two clone attempts
CloneSleep(r) ==
    /\ pc[r] = "clone_sleep"
    /\ IF SleepOrCancel(stop_event) = "ExportCancelled"
       THEN Finish(r, OnCancelled(r))
       ELSE /\ pc' = [pc EXCEPT ![r] = "clone_check"]
            /\ attempt' = [attempt EXCEPT ![r] = @ + 1]
            /\ outcome' = [outcome EXCEPT ![r] = "None"]
            /\ UNCHANGED <<issues, result>>
    /\ UNCHANGED <<mainvars, stop_event, queue, dest, issue_files>>

\* if config.git_gc: if not stop_event.is_set(): _gc_repo(clone_path); when the signal
\* is set gc is skipped and the operation goes on to the issue/PR step
GcCheck(r) ==
    /\ pc[r] = "gc_check"
    /\ IF stop_event
       THEN \E mk \in BOOLEAN : EnterIssues(r, mk)
       ELSE /\ pc' = [pc EXCEPT ![r] = "gc_run"]
            /\ UNCHANGED <<attempt, outcome, issues, result, issue_files>>
    /\ UNCHANGED <<mainvars, stop_event, queue, dest>>

\* the gc process ends: without an error the operation goes on; with an error the
\* inner except clause is entered
GcDone(r) ==
    /\ pc[r] = "gc_run"
    /\ \E ok \in BOOLEAN, mk \in BOOLEAN :
         IF ok
         THEN EnterIssues(r, mk)
         ELSE IF AfterGc(ok) = "continue"
              THEN /\ pc' = [pc EXCEPT ![r] = "gc_warn"]
                   /\ UNCHANGED <<attempt, outcome, issues, result, issue_files>>
              ELSE Finish(r, OnStepException(r, "CalledProcessError")) /\ UNCHANGED issue_files
    /\ UNCHANGED <<mainvars, stop_event, queue, dest>>

\* except Exception as e: log.warning("git gc failed ..."), then the issue/PR step
GcWarn(r) ==
    /\ pc[r] = "gc_warn"
    /\ \E mk \in BOOLEAN : EnterIssues(r, mk)
    /\ UNCHANGED <<mainvars, stop_event, queue, dest>>

\* with attempt: if stop_event.is_set(): raise ExportCancelled(); fetch_issues(...)
IssCheck(r) ==
    /\ pc[r] = "iss_check"
    /\ IF stop_event
       THEN Finish(r, OnCancelled(r))
       ELSE /\ pc' = [pc EXCEPT ![r] = "fetch_issues"]
            /\ UNCHANGED <<attempt, outcome, issues, result>>
    /\ UNCHANGED <<mainvars, stop_event, queue, dest, issue_files>>

FetchOutcomes == {"ok", "cpe", "error"}

\* how an attempt of the issue/PR loop that failed with outcome o goes on: the one
\* Retrying loop holds both fetches, and the local `issues` keeps what an earlier
\* fetch_issues returned
FetchFailed(r, o) ==
    IF RetryDecision(attempt[r], o, FetchAttempts) = "sleep"
    THEN /\ pc' = [pc EXCEPT ![r] = "iss_sleep"]
         /\ outcome' = [outcome EXCEPT ![r] = o]
         /\ UNCHANGED <<attempt, issues, result>>
    ELSE Finish(r, OnIssuesException(r))

FetchIssuesDone(r) ==
    /\ pc[r] = "fetch_issues"
    /\ \E o \in FetchOutcomes :
         IF o = "ok"
         THEN /\ issues' = [issues EXCEPT ![r] = IssueCount(r)]
              /\ pc' = [pc EXCEPT ![r] = "iss_check2"]
              /\ UNCHANGED <<attempt, outcome, result>>
         ELSE FetchFailed(r, o)
    /\ UNCHANGED <<mainvars, stop_event, queue, dest, issue_files>>

\* if stop_event.is_set(): raise ExportCancelled(); fetch_pulls(...)
IssCheck2(r) ==
    /\ pc[r] = "iss_check2"
    /\ IF stop_event
       THEN Finish(r, OnCancelled(r))
       ELSE /\ pc' = [pc EXCEPT ![r] = "fetch_pulls"]
            /\ UNCHANGED <<attempt, outcome, issues, result>>
    /\ UNCHANGED <<mainvars, stop_event, queue, dest, issue_files>>

\* fetch_pulls ends; on success both JSON files are written (either write may fail)
FetchPullsDone(r) ==
    /\ pc[r] = "fetch_pulls"
    /\ \E o \in FetchOutcomes, w \in {"both", "issues_only", "none"} :
         IF o = "ok"
         THEN IF w = "both"
              THEN /\ issue_files' = [issue_files EXCEPT ![r] = "both"]
                   /\ Finish(r, SuccessResult(r, issues[r], PullCount(r)))
              ELSE /\ issue_files' = [issue_files EXCEPT ![r] =
                                         IF w = "none" THEN @ ELSE "issues_only"]
                   /\ Finish(r, OnIssuesException(r))
         ELSE FetchFailed(r, o) /\ UNCHANGED issue_files
    /\ UNCHANGED <<mainvars, stop_event, queue, dest>>

\* the backoff wait between two attempts of the issue/PR loop
IssSleep(r) ==
    /\ pc[r] = "iss_sleep"
    /\ IF SleepOrCancel(stop_event) = "ExportCancelled"
       THEN Finish(r, OnCancelled(r))
       ELSE /\ pc' = [pc EXCEPT ![r] = "iss_check"]
            /\ attempt' = [attempt EXCEPT ![r] = @ + 1]
            /\ outcome' = [outcome EXCEPT ![r] = "None"]
            /\ UNCHANGED <<issues, result>>
    /\ UNCHANGED <<mainvars, stop_event, queue, dest, issue_files>>

\* ------------------------------------------------- run_export
Repos == 1..nrepos
Collected == {results[i].repo : i \in 1..Len(results)}

\* variant: an empty list does not end the run
AfterListing_NoEmptyReturn(n) == IF cfg.dry_run THEN "returned" ELSE "create_dir"

\* variant: a dry run goes on to the export
AfterListing_NoDryRun(n) == IF n = 0 THEN "returned" ELSE "create_dir"

\* where run_export goes with a filtered list of n repositories: if not repos: return
\* stats; if config.dry_run: ... return stats
AfterListing(n) == IF n = 0 \/ cfg.dry_run THEN "returned" ELSE "create_dir"

\* variant: the run directory is made before the listing
ListRepos_DirFirst ==
    /\ mainpc = "list"
    /\ \E ok \in BOOLEAN, n \in 0..MaxRepos :
         IF ~ok
         THEN /\ mainpc' = "raised"
              /\ exc' = "ListError"
              /\ export_dir' = "repos_only"
              /\ UNCHANGED <<nrepos, stats>>
         ELSE /\ nrepos' = n
              /\ stats' = IF n = 0 THEN stats ELSE [stats EXCEPT !.repos_total = n]
              /\ mainpc' = AfterListing(n)
              /\ exc' = exc
              /\ export_dir' = export_dir
    /\ UNCHANGED <<fs, pg, tk, ls, ar, exit_code, cfg, opts, submitted, results, archive, stop_event, queue, opvars>>

\* list_repos and _filter_repos, the empty-list return and the dry-run return
ListRepos ==
    /\ mainpc = "list"
    /\ \E ok \in BOOLEAN, n \in 0..MaxRepos :
         IF ~ok
         THEN /\ mainpc' = "raised"
              /\ exc' = "ListError"
              /\ UNCHANGED <<nrepos, stats>>
         ELSE /\ nrepos' = n
              /\ stats' = IF n = 0 THEN stats ELSE [stats EXCEPT !.repos_total = n]
              /\ mainpc' = AfterListing(n)
              /\ exc' = exc
    /\ UNCHANGED <<fs, pg, tk, ls, ar, exit_code, cfg, opts, submitted, results, export_dir, archive, stop_event, queue, opvars>>

\* what exists of the run directory: create_export_dir makes <dir>/repos, then
\* <dir>/issues, and write_metadata writes <dir>/metadata.json; any of the three may fail
Layout(d) ==
    CASE d = "repos_only" -> {"dir", "repos"}
      [] d = "no_metadata" -> {"dir", "repos", "issues"}
      [] d = "present" -> {"dir", "repos", "issues", "metadata.json"}
      [] OTHER -> {}

\* variant: a failure to write metadata.json does not stop the run
AfterCreate_IgnoreMetadata(made) ==
    IF made \in {"present", "no_metadata"} THEN "executor" ELSE "raised"

\* run_export goes on to the executor only when both calls returned
AfterCreate(made) == IF made = "present" THEN "executor" ELSE "raised"

\* create_export_dir and write_metadata
CreateExportDir ==
    /\ mainpc = "create_dir"
    /\ \E made \in {"absent", "repos_only", "no_metadata", "present"} :
         /\ export_dir' = made
         /\ mainpc' = AfterCreate(made)
         /\ exc' = IF AfterCreate(made) = "raised" THEN "OSError" ELSE exc
    /\ UNCHANGED <<fs, pg, tk, ls, ar, exit_code, cfg, opts, nrepos, submitted, results, stats, archive, stop_event, queue, opvars>>

\* ThreadPoolExecutor.__init__: if max_workers <= 0: raise ValueError; else the pool
\* has max_workers threads
PoolSize(max_workers) ==
    IF max_workers <= 0
    THEN [error |-> "ValueError", threads |-> 0]
    ELSE [error |-> "None", threads |-> max_workers]

\* with ThreadPoolExecutor(max_workers=config.workers) as executor
CreateExecutor ==
    /\ mainpc = "executor"
    /\ IF PoolSize(cfg.workers).error = "ValueError"
       THEN mainpc' = "raised" /\ exc' = "ValueError"
       ELSE mainpc' = "submit" /\ exc' = exc
    /\ UNCHANGED <<fs, pg, tk, ls, ar, exit_code, cfg, opts, nrepos, submitted, results, stats, export_dir,
                   archive, stop_event, queue, opvars>>

\* one executor.submit(_export_repo, repo, ...) of the dict comprehension; after the
\* last one the try block and as_completed are entered
Submit ==
    /\ mainpc = "submit"
    /\ submitted < nrepos
    /\ submitted' = submitted + 1
    /\ queue' = Append(queue, submitted + 1)
    /\ pc' = [pc EXCEPT ![submitted + 1] = "queued"]
    /\ mainpc' = IF submitted + 1 = nrepos THEN "collect" ELSE "submit"
    /\ UNCHANGED <<fs, pg, tk, ls, ar, exit_code, cfg, opts, nrepos, exc, results, stats, export_dir, archive, stop_event,
                   attempt, outcome, issues, result, dest, issue_files>>

\* KeyboardInterrupt inside the dict comprehension: outside the try, so it leaves
\* through the executor's __exit__ (shutdown(wait=True)) with the signal unset
InterruptSubmit ==
    /\ mainpc = "submit"
    /\ mainpc' = "exit_wait"
    /\ exc' = "KeyboardInterrupt"
    /\ UNCHANGED <<fs, pg, tk, ls, ar, exit_code, cfg, opts, nrepos, submitted, results, stats, export_dir, archive,
                   stop_event, queue, opvars>>

\* for future in as_completed(futures): result = future.result(); results.append(result)
Collect(r) ==
    /\ mainpc = "collect"
    /\ pc[r] = "done"
    /\ r \notin Collected
    /\ IF result[r].kind = "exception"
       THEN /\ mainpc' = "exit_wait"
            /\ exc' = result[r].error
            /\ UNCHANGED results
       ELSE /\ results' = Append(results, result[r])
            /\ UNCHANGED <<mainpc, exc>>
    /\ UNCHANGED <<fs, pg, tk, ls, ar, exit_code, cfg, opts, nrepos, submitted, stats, export_dir, archive, stop_event, queue,
                   opvars>>

\* KeyboardInterrupt inside the as_completed loop: the except clause runs
\* stop_event.set()
Interrupt ==
    /\ mainpc = "collect"
    /\ stop_event' = TRUE
    /\ mainpc' = "kbd_shutdown"
    /\ exc' = "KeyboardInterrupt"
    /\ UNCHANGED <<fs, pg, tk, ls, ar, exit_code, cfg, opts, nrepos, submitted, results, stats, export_dir, archive,
                   queue, opvars>>

\* executor.shutdown(wait=False, cancel_futures=True): every queued call is cancelled
CancelFutures(q) == [r \in RepoIds |-> IF pc[r] = "queued" THEN "cancelled" ELSE pc[r]]

\* variant: the shutdown clears the signal
Shutdown_ClearSignal ==
    /\ mainpc = "kbd_shutdown"
    /\ pc' = CancelFutures(queue)
    /\ queue' = <<>>
    /\ mainpc' = "exit_wait"
    /\ stop_event' = FALSE
    /\ UNCHANGED <<fs, pg, tk, ls, ar, exit_code, cfg, opts, nrepos, exc, submitted, results, stats, export_dir, archive,
                   attempt, outcome, issues, result, dest, issue_files>>

Shutdown ==
    /\ mainpc = "kbd_shutdown"
    /\ pc' = CancelFutures(queue)
    /\ queue' = <<>>
    /\ mainpc' = "exit_wait"
    /\ UNCHANGED <<fs, pg, tk, ls, ar, exit_code, cfg, opts, nrepos, exc, submitted, results, stats, export_dir, archive,
                   stop_event, attempt, outcome, issues, result, dest, issue_files>>

\* variant: after the pool is closed run_export returns its statistics
ExitWait_Return ==
    /\ mainpc = "exit_wait"
    /\ queue = <<>>
    /\ ActiveCount = 0
    /\ mainpc' = "returned"
    /\ UNCHANGED <<fs, pg, tk, ls, ar, exit_code, cfg, opts, nrepos, exc, submitted, results, stats, export_dir, archive,
                   stop_event, queue, opvars>>

\* the executor's __exit__ with an exception in flight: shutdown(wait=True) returns once
\* every worker thread has ended, then the exception leaves run_export
ExitWait ==
    /\ mainpc = "exit_wait"
    /\ queue = <<>>
    /\ ActiveCount = 0
    /\ mainpc' = "raised"
    /\ UNCHANGED <<fs, pg, tk, ls, ar, exit_code, cfg, opts, nrepos, exc, submitted, results, stats, export_dir, archive,
                   stop_event, queue, opvars>>

\* variant: a failure is counted without its name being recorded
AddResult_NoName(s, res) ==
    IF res.success
    THEN [s EXCEPT !.repos_cloned = @ + 1,
                   !.issues_exported = @ + res.issues_count,
                   !.pulls_exported = @ + res.pulls_count]
    ELSE [s EXCEPT !.repos_failed = @ + 1]

\* for result in results: ... (the aggregation loop body)
AddResult(s, res) ==
    IF res.success
    THEN [s EXCEPT !.repos_cloned = @ + 1,
                   !.issues_exported = @ + res.issues_count,
                   !.pulls_exported = @ + res.pulls_count]
    ELSE [s EXCEPT !.repos_failed = @ + 1,
                   !.failed_repos = Append(@, res.repo)]

\* variant: the aggregation loop ends at the first failure
RECURSIVE AggregateStats_StopAtFailure(_, _)
AggregateStats_StopAtFailure(s, rs) ==
    IF rs = <<>> THEN s
    ELSE IF Head(rs).success
         THEN AggregateStats_StopAtFailure(AddResult(s, Head(rs)), Tail(rs))
         ELSE AddResult(s, Head(rs))

RECURSIVE AggregateStats(_, _)
AggregateStats(s, rs) ==
    IF rs = <<>> THEN s ELSE AggregateStats(AddResult(s, Head(rs)), Tail(rs))

\* the as_completed loop is exhausted; the pool is closed and the statistics aggregated
Aggregate ==
    /\ mainpc = "collect"
    /\ Len(results) = nrepos
    /\ stats' = AggregateStats(stats, results)
    /\ \E c \in BOOLEAN, k \in BOOLEAN :
         /\ opts' = ArchiveOptions(c, k)
         /\ mainpc' = IF c THEN "compress" ELSE "returned"
    /\ UNCHANGED <<fs, pg, tk, ls, ar, exit_code, cfg, nrepos, exc, submitted, results, export_dir, archive, stop_event,
                   queue, opvars>>

\* ------------------------------------------------- archival
\* variant: the output is left where it is
RemovePartial_Keep(a) == a

\* compress_directory's and run_export's cleanup: if output_path.exists(): unlink()
RemovePartial(a) == "absent"

\* compress_directory is entered: the parent directory is made and the output opened
CompressBegin ==
    /\ mainpc = "compress"
    /\ \E ok \in BOOLEAN :
         IF ok
         THEN /\ archive' = "partial"
              /\ mainpc' = "compressing"
              /\ exc' = exc
         ELSE /\ archive' = archive
              /\ mainpc' = "raised"
              /\ exc' = "OSError"
    /\ UNCHANGED <<fs, pg, tk, ls, ar, exit_code, cfg, opts, nrepos, submitted, results, stats, export_dir, stop_event, queue,
                   opvars>>

\* the writer has streamed the whole tree and compress_directory returns
CompressFinish ==
    /\ mainpc = "compressing"
    /\ archive' = "complete"
    /\ mainpc' = "compressed"
    /\ UNCHANGED <<fs, pg, tk, ls, ar, exit_code, cfg, opts, nrepos, exc, submitted, results, stats, export_dir, stop_event,
                   queue, opvars>>

\* an Exception inside the writer: compress_directory unlinks the output and re-raises
CompressFail ==
    /\ mainpc = "compressing"
    /\ archive' = RemovePartial(archive)
    /\ mainpc' = "raised"
    /\ exc' = "ArchiveError"
    /\ UNCHANGED <<fs, pg, tk, ls, ar, exit_code, cfg, opts, nrepos, submitted, results, stats, export_dir, stop_event, queue,
                   opvars>>

\* KeyboardInterrupt inside run_export's try: run_export unlinks the output and re-raises
CompressInterrupt ==
    /\ mainpc \in {"compressing", "compressed"}
    /\ archive' = RemovePartial(archive)
    /\ mainpc' = "raised"
    /\ exc' = "KeyboardInterrupt"
    /\ UNCHANGED <<fs, pg, tk, ls, ar, exit_code, cfg, opts, nrepos, submitted, results, stats, export_dir, stop_event, queue,
                   opvars>>

\* variant: the run directory is removed whatever config.keep_dir says
RecordSize_IgnoreKeepDir ==
    /\ mainpc = "compressed"
    /\ \E b \in 1..MaxArchiveBytes : stats' = [stats EXCEPT !.bytes_compressed = b]
    /\ mainpc' = "rmtree"
    /\ UNCHANGED <<fs, pg, tk, ls, ar, exit_code, cfg, opts, nrepos, exc, submitted, results, export_dir, archive, stop_event,
                   queue, opvars>>

\* stats.bytes_compressed = archive_path.stat().st_size
RecordSize ==
    /\ mainpc = "compressed"
    /\ \E b \in 1..MaxArchiveBytes : stats' = [stats EXCEPT !.bytes_compressed = b]
    /\ mainpc' = IF opts.keep_dir THEN "returned" ELSE "rmtree"
    /\ UNCHANGED <<fs, pg, tk, ls, ar, exit_code, cfg, opts, nrepos, exc, submitted, results, export_dir, archive, stop_event,
                   queue, opvars>>

\* if not config.keep_dir: shutil.rmtree(export_dir)
RemoveExportDir ==
    /\ mainpc = "rmtree"
    /\ export_dir' = "removed"
    /\ mainpc' = "returned"
    /\ UNCHANGED <<fs, pg, tk, ls, ar, exit_code, cfg, opts, nrepos, exc, submitted, results, stats, archive, stop_event,
                   queue, opvars>>

\* ------------------------------------------------- the export command
\* variant: the interruption is handled like any other error
ExportCommandExit_NoInterrupt(ended, e, s) ==
    IF ended = "raised" THEN 1
    ELSE IF s.repos_failed > 0 THEN 2 ELSE 0

\* cli.export_command around run_export: typer.Exit(130) on KeyboardInterrupt,
\* typer.Exit(1) on any other exception, else typer.Exit(2 if stats.repos_failed > 0
\* else 0)
ExportCommandExit(ended, e, s) ==
    IF ended = "raised"
    THEN IF e = "KeyboardInterrupt" THEN 130 ELSE 1
    ELSE IF s.repos_failed > 0 THEN 2 ELSE 0

\* run_export has returned or raised, and the command exits
Exit ==
    /\ mainpc \in {"returned", "raised"}
    /\ exit_code = <<>>
    /\ exit_code' = <<ExportCommandExit(mainpc, exc, stats)>>
    /\ UNCHANGED <<fs, pg, tk, ls, ar, cfg, opts, nrepos, mainpc, exc, submitted, results, stats,
                   export_dir, archive, stop_event, queue, opvars>>

\* ------------------------------------------------- the specification
OpStep(r) ==
    \/ StartOp(r)
    \/ CloneCheck(r)
    \/ CloneDone(r)
    \/ CloneSleep(r)
    \/ GcCheck(r)
    \/ GcDone(r)
    \/ GcWarn(r)
    \/ IssCheck(r)
    \/ FetchIssuesDone(r)
    \/ IssCheck2(r)
    \/ FetchPullsDone(r)
    \/ IssSleep(r)

Next ==
    \/ ListRepos
    \/ CreateExportDir
    \/ CreateExecutor
    \/ Submit
    \/ InterruptSubmit
    \/ \E r \in RepoIds : Collect(r)
    \/ Interrupt
    \/ Shutdown
    \/ ExitWait
    \/ Aggregate
    \/ CompressBegin
    \/ CompressFinish
    \/ CompressFail
    \/ CompressInterrupt
    \/ RecordSize
    \/ RemoveExportDir
    \/ Exit
    \/ \E r \in RepoIds : OpStep(r)

Spec == Init /\ [][Next]_vars

\* the steps that the program takes by itself: every step but the user's interruptions
ProgramStep ==
    \/ ListRepos
    \/ CreateExportDir
    \/ CreateExecutor
    \/ Submit
    \/ \E r \in RepoIds : Collect(r)
    \/ Shutdown
    \/ ExitWait
    \/ Aggregate
    \/ CompressBegin
    \/ CompressFinish
    \/ CompressFail
    \/ RecordSize
    \/ RemoveExportDir
    \/ Exit
    \/ \E r \in RepoIds : OpStep(r)

\* the main thread and the worker threads keep running, and every external process
\* ends: a step of the program that stays possible is taken
SpecLive == Init /\ [][Next]_vars /\ WF_vars(ProgramStep)

\* ------------------------------------------------- the texts of one clone step
\* _clone_repo and the handler of _export_repo for one repository, with the texts they
\* build: the command line, the exception texts and the log messages. A text is a
\* sequence of characters; a literal part of a message is one element of it.
Chars == {"a", "b"}
SeqsUpTo(S, n) == UNION {[1..k -> S] : k \in 0..n}
\* the token resolved by the authentication step is never empty
Tokens == SeqsUpTo(Chars, MaxTokenLen) \ {<<>>}
\* what the git process may have written to stdout / stderr (captured as bytes)
Outputs == SeqsUpTo(Chars, MaxOutputLen)

OccursAt(text, pat, i) ==
    /\ i + Len(pat) - 1 <= Len(text)
    /\ \A k \in 1..Len(pat) : text[i + k - 1] = pat[k]

\* pat in text
Contains(text, pat) == \E i \in 1..Len(text) : OccursAt(text, pat, i)

\* text.replace(old, new) for a non-empty old: leftmost, non-overlapping occurrences
RECURSIVE ReplaceFrom(_, _, _, _)
ReplaceFrom(text, old, new, i) ==
    IF i > Len(text) THEN <<>>
    ELSE IF OccursAt(text, old, i)
         THEN new \o ReplaceFrom(text, old, new, i + Len(old))
         ELSE <<text[i]>> \o ReplaceFrom(text, old, new, i + 1)

StrReplace(text, old, new) == ReplaceFrom(text, old, new, 1)

\* RepoInfo.url as `gh repo list --json url` gives it
RepoUrl == <<"https://", "github.com/org/repo">>

\* clone_url = repo.url.replace("https://", f"https://oauth2:{token}@")
CloneUrl(token) ==
    StrReplace(RepoUrl, <<"https://">>, <<"https://", "oauth2:">> \o token \o <<"@">>)

\* str(cmd) for cmd = ["git", "clone", "--mirror", clone_url, str(dest)]
CloneCmd(token) ==
    <<"['git', 'clone', '--mirror', '">> \o CloneUrl(token) \o <<"', 'repos/repo.git']">>

\* str(CalledProcessError(returncode, cmd))
CalledProcessErrorText(cmd) ==
    <<"Command '">> \o cmd \o <<"' returned non-zero exit status 128.">>

\* e.stdout or "": the captured bytes, or the empty str when there are none
OrEmpty(out) ==
    IF out = <<>> THEN [type |-> "str", val |-> <<>>] ELSE [type |-> "bytes", val |-> out]

\* _redact_token(text, token): text.replace(token, "***") if token else text; with a
\* bytes text and str arguments bytes.replace raises TypeError
RedactToken(x, token) ==
    IF token = <<>> THEN x
    ELSE IF x.type = "bytes" THEN [type |-> "TypeError", val |-> <<>>]
    ELSE [type |-> "str", val |-> StrReplace(x.val, token, <<"*", "*", "*">>)]

\* the text of what leaves _clone_repo's except clause for a CalledProcessError e with
\* captured stdout so and stderr se: CalledProcessError(e.returncode, e.cmd), unless a
\* redaction raised
RaisedByClone(token, so, se) ==
    IF RedactToken(OrEmpty(so), token).type = "TypeError"
       \/ RedactToken(OrEmpty(se), token).type = "TypeError"
    THEN <<"a bytes-like object is required, not 'str'">>
    ELSE CalledProcessErrorText(CloneCmd(token))

\* tenacity's before_sleep_log message for the failed attempt
RetryMessage(token) ==
    <<"Retrying <unknown> in 2.0 seconds as it raised CalledProcessError: ">>
        \o CalledProcessErrorText(CloneCmd(token)) \o <<".">>

\* log.error("Export failed for %s: %s", repo.name, e)
ExportFailedMessage(text) == <<"Export failed for repo: ">> \o text

TkInit ==
    tk \in [pc : {"attempt"}, token : Tokens, attempt : {1}, stop : {FALSE},
            raised : {<<>>}, error : {<<>>}, logs : {{}}]

\* the user interrupts: stop_event.set()
TkStop ==
    /\ tk.pc \in {"attempt", "running", "sleep"}
    /\ ~tk.stop
    /\ tk' = [tk EXCEPT !.stop = TRUE]
    /\ UNCHANGED <<fs, pg, ls, ar, exit_code, cfg, opts, nrepos, mainpc, exc, submitted, results, stats, export_dir,
                   archive, stop_event, queue, opvars>>

\* if stop_event.is_set(): raise ExportCancelled(), else git is run
TkCheck ==
    /\ tk.pc = "attempt"
    /\ tk' = IF tk.stop
             THEN [tk EXCEPT !.pc = "done", !.error = <<"Cancelled">>]
             ELSE [tk EXCEPT !.pc = "running"]
    /\ UNCHANGED <<fs, pg, ls, ar, exit_code, cfg, opts, nrepos, mainpc, exc, submitted, results, stats, export_dir,
                   archive, stop_event, queue, opvars>>

TkCloneOk ==
    /\ tk.pc = "running"
    /\ tk' = [tk EXCEPT !.pc = "cloned"]
    /\ UNCHANGED <<fs, pg, ls, ar, exit_code, cfg, opts, nrepos, mainpc, exc, submitted, results, stats, export_dir,
                   archive, stop_event, queue, opvars>>

\* git exits non-zero having written so to stdout and se to stderr
TkCloneFail ==
    /\ tk.pc = "running"
    /\ \E so \in Outputs, se \in Outputs :
         IF RetryDecision(tk.attempt, "cpe", CloneAttempts) = "sleep"
         THEN \* _log_before_sleep, then the wait
              tk' = [tk EXCEPT !.pc = "sleep",
                               !.logs = IF tk.stop THEN @ ELSE @ \cup {RetryMessage(tk.token)}]
         ELSE tk' = [tk EXCEPT !.pc = "raised",
                               !.raised = RaisedByClone(tk.token, so, se)]
    /\ UNCHANGED <<fs, pg, ls, ar, exit_code, cfg, opts, nrepos, mainpc, exc, submitted, results, stats, export_dir,
                   archive, stop_event, queue, opvars>>

TkSleep ==
    /\ tk.pc = "sleep"
    /\ tk' = IF SleepOrCancel(tk.stop) = "ExportCancelled"
             THEN [tk EXCEPT !.pc = "done", !.error = <<"Cancelled">>]
             ELSE [tk EXCEPT !.pc = "attempt", !.attempt = @ + 1]
    /\ UNCHANGED <<fs, pg, ls, ar, exit_code, cfg, opts, nrepos, mainpc, exc, submitted, results, stats, export_dir,
                   archive, stop_event, queue, opvars>>

\* _export_repo: except Exception as e: log.error(...); RepoResult(error=str(e))
TkFailed ==
    /\ tk.pc = "raised"
    /\ tk' = [tk EXCEPT !.pc = "done",
                        !.error = tk.raised,
                        !.logs = @ \cup {ExportFailedMessage(tk.raised)}]
    /\ UNCHANGED <<fs, pg, ls, ar, exit_code, cfg, opts, nrepos, mainpc, exc, submitted, results, stats, export_dir,
                   archive, stop_event, queue, opvars>>

TkNext ==
    \/ TkStop
    \/ TkCheck
    \/ TkCloneOk
    \/ TkCloneFail
    \/ TkSleep
    \/ TkFailed

QuietConfig ==
    [workers |-> 1, git_gc |-> FALSE, skip_issues |-> FALSE, dry_run |-> FALSE]

InitToken == RunInit({QuietConfig}) /\ TkInit /\ ls = NoListing /\ ar = NoArchive /\ Unfollowed

SpecToken == InitToken /\ [][TkNext]_vars

\* ------------------------------------------------- one listing and its filtering
\* list_repos (the allow-list) and _filter_repos for one listing and one configuration.
\* A listed repository is named by its position in the listing; the allow-list may also
\* hold a name that no listing has.
Names == 1..(MaxListing + 1)
Attributes == [is_fork : BOOLEAN, is_archived : BOOLEAN, is_private : BOOLEAN]

RepoInfo(name, a) ==
    [name |-> name, is_fork |-> a.is_fork, is_archived |-> a.is_archived,
     is_private |-> a.is_private]

\* what `gh repo list` may return
Listings ==
    UNION {{[i \in 1..n |-> RepoInfo(i, a[i])] : a \in [1..n -> Attributes]} : n \in 0..MaxListing}

Visibilities == {"all", "public", "private"}

FilterConfigs ==
    [skip_forks : BOOLEAN, skip_archived : BOOLEAN, visibility : Visibilities,
     only_repos : SUBSET Names]

\* variant: the allow-list is not applied
ListReposOnly_Ignored(repos, only) == repos

\* list_repos(org, config.only_repos or None): if only: only_set = set(only);
\* repos = [r for r in repos if r.name in only_set]
ListReposOnly(repos, only) ==
    IF only = {} THEN repos ELSE SelectSeq(repos, LAMBDA r : r.name \in only)

\* variant: the private-only setting keeps the public repositories
FilterArchivedVisibility_Swapped(repos, c) ==
    LET a == IF c.skip_archived THEN SelectSeq(repos, LAMBDA r : ~r.is_archived) ELSE repos
    IN  CASE c.visibility = "public" -> SelectSeq(a, LAMBDA r : ~r.is_private)
          [] c.visibility = "private" -> SelectSeq(a, LAMBDA r : ~r.is_private)
          [] OTHER -> a

\* the archived and visibility filters
FilterArchivedVisibility(repos, c) ==
    LET a == IF c.skip_archived THEN SelectSeq(repos, LAMBDA r : ~r.is_archived) ELSE repos
    IN  CASE c.visibility = "public" -> SelectSeq(a, LAMBDA r : ~r.is_private)
          [] c.visibility = "private" -> SelectSeq(a, LAMBDA r : r.is_private)
          [] OTHER -> a

\* forks removed from the list while it is iterated: the element after a removed one is
\* skipped
RECURSIVE RemoveForksInPlace(_, _)
RemoveForksInPlace(rs, i) ==
    IF i > Len(rs) THEN rs
    ELSE IF rs[i].is_fork
         THEN RemoveForksInPlace(SubSeq(rs, 1, i - 1) \o SubSeq(rs, i + 1, Len(rs)), i + 1)
         ELSE RemoveForksInPlace(rs, i + 1)

\* variant: the fork filter removes in place
FilterRepos_InPlace(repos, c) ==
    FilterArchivedVisibility(IF c.skip_forks THEN RemoveForksInPlace(repos, 1) ELSE repos, c)

\* _filter_repos(repos, config)
FilterRepos(repos, c) ==
    FilterArchivedVisibility(
        IF c.skip_forks THEN SelectSeq(repos, LAMBDA r : ~r.is_fork) ELSE repos, c)

\* sum(1 for r in repos if ...)
CountOf(repos, Test(_)) == Len(SelectSeq(repos, Test))

\* variant: every repository is counted as public
WriteMetadata_AllPublic(repos) ==
    [total_repos |-> Len(repos),
     private_repos |-> CountOf(repos, LAMBDA r : r.is_private),
     public_repos |-> Len(repos),
     fork_repos |-> CountOf(repos, LAMBDA r : r.is_fork),
     archived_repos |-> CountOf(repos, LAMBDA r : r.is_archived),
     repos |-> repos]

\* write_metadata(export_dir, org, repos, config): the "stats" and "repos" entries of
\* the metadata.json it writes
WriteMetadata(repos) ==
    [total_repos |-> Len(repos),
     private_repos |-> CountOf(repos, LAMBDA r : r.is_private),
     public_repos |-> CountOf(repos, LAMBDA r : ~r.is_private),
     fork_repos |-> CountOf(repos, LAMBDA r : r.is_fork),
     archived_repos |-> CountOf(repos, LAMBDA r : r.is_archived),
     repos |-> repos]

\* no metadata.json
NoMetadata == [total_repos |-> 0, private_repos |-> 0, public_repos |-> 0,
               fork_repos |-> 0, archived_repos |-> 0, repos |-> <<>>]

LsInit ==
    ls \in [pc : {"list"}, listing : Listings, config : FilterConfigs,
            repos : {<<>>}, again : {<<>>}, repos_total : {0}, metadata : {NoMetadata}]

\* repos = list_repos(config.org, config.only_repos or None)
LsList ==
    /\ ls.pc = "list"
    /\ ls' = [ls EXCEPT !.pc = "filter",
                        !.repos = ListReposOnly(ls.listing, ls.config.only_repos)]
    /\ UNCHANGED <<fs, pg, tk, ar, exit_code, cfg, opts, nrepos, mainpc, exc, submitted, results, stats,
                   export_dir, archive, stop_event, queue, opvars>>

\* repos = _filter_repos(repos, config); stats.repos_total = len(repos) (zero when the
\* list is empty and run_export returns)
LsFilter ==
    /\ ls.pc = "filter"
    /\ LET out == FilterRepos(ls.repos, ls.config)
       IN  ls' = [ls EXCEPT !.pc = "filtered", !.repos = out, !.repos_total = Len(out)]
    /\ UNCHANGED <<fs, pg, tk, ar, exit_code, cfg, opts, nrepos, mainpc, exc, submitted, results, stats,
                   export_dir, archive, stop_event, queue, opvars>>

\* the filter applied to its own output
LsRefilter ==
    /\ ls.pc = "filtered"
    /\ ls' = [ls EXCEPT !.pc = "refiltered", !.again = FilterRepos(ls.repos, ls.config)]
    /\ UNCHANGED <<fs, pg, tk, ar, exit_code, cfg, opts, nrepos, mainpc, exc, submitted, results, stats,
                   export_dir, archive, stop_event, queue, opvars>>

\* the list is not empty and the run is not a dry run: create_export_dir, then
\* write_metadata(export_dir, config.org, repos, config)
LsWriteMetadata ==
    /\ ls.pc = "filtered"
    /\ ls.repos # <<>>
    /\ ls' = [ls EXCEPT !.pc = "written", !.metadata = WriteMetadata(ls.repos)]
    /\ UNCHANGED <<fs, pg, tk, ar, exit_code, cfg, opts, nrepos, mainpc, exc, submitted, results, stats,
                   export_dir, archive, stop_event, queue, opvars>>

LsNext ==
    \/ LsList
    \/ LsFilter
    \/ LsRefilter
    \/ LsWriteMetadata

InitListing == RunInit({QuietConfig}) /\ tk = NoClone /\ LsInit /\ ar = NoArchive /\ Unfollowed

SpecListing == InitListing /\ [][LsNext]_vars

\* ------------------------------------------------- one source tree and its archive
\* compress_directory and verify_archive for one source tree and one format. A
\* directory is the function from entry names to what is there under each name.
ArchiveFormats == {"zst", "gz", "xz"}
EntryNames == {"x", "y"}

NoEntry == [kind |-> "none"]
\* fpath.stat().st_size of a file
FileSizes == {0, 1}
FileEntry(size) == [kind |-> "file", size |-> size]
DirEntry(c) == [kind |-> "dir", entries |-> c]

\* the contents a directory may have with at most d levels of entries below it
RECURSIVE DirContents(_)
DirContents(d) ==
    IF d = 0 THEN {[n \in EntryNames |-> NoEntry]}
    ELSE [EntryNames -> {NoEntry} \cup {FileEntry(s) : s \in FileSizes}
                            \cup {DirEntry(c) : c \in DirContents(d - 1)}]

FilesIn(c) == {n \in EntryNames : c[n].kind = "file"}
DirsIn(c) == {n \in EntryNames : c[n].kind = "dir"}
\* not any(dpath.iterdir())
IsEmptyDir(c) == \A n \in EntryNames : c[n].kind = "none"

\* the name of the source directory: arcname = path.relative_to(source_dir.parent)
SourceName == "org-run"
Member(root, n, type) == [path |-> Append(root, n), type |-> type]

\* _compress_zst: os.walk adds every file, and every directory of _dirs that is empty
RECURSIVE ZstMembers(_, _)
ZstMembers(c, root) ==
    {Member(root, n, "file") : n \in FilesIn(c)}
        \cup {Member(root, n, "dir") : n \in {m \in DirsIn(c) : IsEmptyDir(c[m].entries)}}
        \cup UNION {ZstMembers(c[n].entries, Append(root, n)) : n \in DirsIn(c)}

\* variant: only the files directly in the source directory are added
StdlibMembers_TopOnly(c, root) == {Member(root, n, "file") : n \in FilesIn(c)}

\* _compress_stdlib: os.walk adds every file
RECURSIVE StdlibMembers(_, _)
StdlibMembers(c, root) ==
    {Member(root, n, "file") : n \in FilesIn(c)}
        \cup UNION {StdlibMembers(c[n].entries, Append(root, n)) : n \in DirsIn(c)}

\* the order in which a directory's entries are listed
EntryOrder == <<"x", "y">>
ListedFiles(c) == SelectSeq(EntryOrder, LAMBDA n : c[n].kind = "file")
ListedDirs(c) == SelectSeq(EntryOrder, LAMBDA n : c[n].kind = "dir")

\* for root, _dirs, files in os.walk(source_dir): for fname in files: the sizes of the
\* files in the order they are added (a directory's files, then each of its
\* sub-directories in turn)
RECURSIVE WalkSizes(_)
RECURSIVE WalkSubdirs(_, _)
WalkSizes(c) ==
    [i \in 1..Len(ListedFiles(c)) |-> c[ListedFiles(c)[i]].size] \o WalkSubdirs(c, ListedDirs(c))

WalkSubdirs(c, ds) ==
    IF ds = <<>> THEN <<>> ELSE WalkSizes(c[Head(ds)].entries) \o WalkSubdirs(c, Tail(ds))

\* variant: the callback is given the size of the file just added
BytesWritten_PerFile(sizes, bytes_written) == sizes

\* bytes_written += fpath.stat().st_size; progress_callback(bytes_written): the values
\* the callback is given, file after file, starting from bytes_written
RECURSIVE BytesWritten(_, _)
BytesWritten(sizes, bytes_written) ==
    IF sizes = <<>> THEN <<>>
    ELSE <<bytes_written + Head(sizes)>>
             \o BytesWritten(Tail(sizes), bytes_written + Head(sizes))

\* _compress_zst: bytes_written = 0, then one callback after each file added (none for
\* an empty directory)
ZstProgress(c) == BytesWritten(WalkSizes(c), 0)
\* _compress_stdlib: bytes_written = 0, then one callback after each file added
StdlibProgress(c) == BytesWritten(WalkSizes(c), 0)

\* the calls of progress_callback during compress_directory(source_dir, output_path, fmt)
ProgressCalls(c, fmt) == IF fmt = "zst" THEN ZstProgress(c) ELSE StdlibProgress(c)

\* get_archive_suffix(fmt)
ArchiveSuffix(fmt) == <<".tar.", fmt>>

\* compress_directory(source_dir, output_path, fmt): the file written at output_path
CompressDirectory(c, fmt) ==
    [suffix |-> ArchiveSuffix(fmt),
     encoding |-> fmt,
     members |-> IF fmt = "zst" THEN ZstMembers(c, <<SourceName>>)
                 ELSE StdlibMembers(c, <<SourceName>>)]

\* verify_archive(archive_path): a .tar.zst name is read through zstandard, any other
\* name through tarfile's "r:*"; the members are counted
VerifyArchive(a) ==
    IF a.suffix = ArchiveSuffix("zst")
    THEN IF a.encoding = "zst"
         THEN [ok |-> TRUE, count |-> Cardinality(a.members)]
         ELSE [ok |-> FALSE, count |-> 0]
    ELSE IF a.encoding \in {"gz", "xz"}
         THEN [ok |-> TRUE, count |-> Cardinality(a.members)]
         ELSE [ok |-> FALSE, count |-> 0]

NoFile == [suffix |-> <<>>, encoding |-> "none", members |-> {}]
NotVerified == [ok |-> FALSE, count |-> 0]

ArInit ==
    ar \in [pc : {"source"}, fmt : ArchiveFormats, tree : DirContents(MaxDepth),
            file : {NoFile}, progress : {<<>>}, verified : {NotVerified}]

ArCompress ==
    /\ ar.pc = "source"
    /\ ar' = [ar EXCEPT !.pc = "archived",
                        !.file = CompressDirectory(ar.tree, ar.fmt),
                        !.progress = ProgressCalls(ar.tree, ar.fmt)]
    /\ UNCHANGED <<fs, pg, tk, ls, exit_code, cfg, opts, nrepos, mainpc, exc, submitted, results, stats,
                   export_dir, archive, stop_event, queue, opvars>>

ArVerify ==
    /\ ar.pc = "archived"
    /\ ar' = [ar EXCEPT !.pc = "verified", !.verified = VerifyArchive(ar.file)]
    /\ UNCHANGED <<fs, pg, tk, ls, exit_code, cfg, opts, nrepos, mainpc, exc, submitted, results, stats,
                   export_dir, archive, stop_event, queue, opvars>>

ArNext ==
    \/ ArCompress
    \/ ArVerify

InitArchive == RunInit({QuietConfig}) /\ tk = NoClone /\ ls = NoListing /\ ArInit /\ Unfollowed

SpecArchive == InitArchive /\ [][ArNext]_vars

\* ------------------------------------------------- the paths two operations touch
\* Two Repository Operations of one run, with the paths they create, write and delete.
\* A repository name is a text (a sequence of pieces); a path is the sequence of its
\* components below the run directory, each component a text.
RepoNames == {<<"a">>, <<"b">>, <<"a", ".git">>, <<"a", ".git", ".git">>}
Ops == {1, 2}

\* clone_path = repos_dir / f"{repo.name}.git"
ClonePathOf(name) == <<<<"repos">>, name \o <<".git">>>>

\* variant: one directory for the files of every repository
IssuesDirOf_Shared(name) == <<<<"issues">>>>

\* repo_issues_dir = issues_dir / repo_name
IssuesDirOf(name) == <<<<"issues">>, name>>
\* repo_issues_dir / "issues.json", repo_issues_dir / "pulls.json"
IssuesFileOf(name, file) == Append(IssuesDirOf(name), <<file>>)

Touch(what, path) == [what |-> what, path |-> path]

\* the listing gives pairwise distinct names
FsInit ==
    fs \in {f \in [pc : [Ops -> {"clone"}], name : [Ops -> RepoNames], touched : [Ops -> {{}}]] :
               f.name[1] # f.name[2]}

FsStep(i, to, touches) ==
    fs' = [fs EXCEPT !.pc[i] = to, !.touched[i] = @ \cup touches]

\* _clone_repo: git clone creates the destination; it succeeds, or fails and leaves it
FsClone(i) ==
    /\ fs.pc[i] = "clone"
    /\ \E ok \in BOOLEAN :
         FsStep(i, IF ok THEN "issues" ELSE "clone_failed",
                {Touch("create", ClonePathOf(fs.name[i]))})
    /\ UNCHANGED <<pg, tk, ls, ar, exit_code, cfg, opts, nrepos, mainpc, exc, submitted, results,
                   stats, export_dir, archive, stop_event, queue, opvars>>

\* except CalledProcessError: shutil.rmtree(dest, ignore_errors=True)
FsRemove(i) ==
    /\ fs.pc[i] = "clone_failed"
    /\ FsStep(i, "done", {Touch("delete", ClonePathOf(fs.name[i]))})
    /\ UNCHANGED <<pg, tk, ls, ar, exit_code, cfg, opts, nrepos, mainpc, exc, submitted, results,
                   stats, export_dir, archive, stop_event, queue, opvars>>

\* _export_repo_issues: repo_issues_dir.mkdir(parents=True, exist_ok=True), or the
\* step is skipped
FsMkdir(i) ==
    /\ fs.pc[i] = "issues"
    /\ \E skip \in BOOLEAN :
         IF skip THEN FsStep(i, "done", {})
         ELSE FsStep(i, "fetch", {Touch("create", IssuesDirOf(fs.name[i]))})
    /\ UNCHANGED <<pg, tk, ls, ar, exit_code, cfg, opts, nrepos, mainpc, exc, submitted, results,
                   stats, export_dir, archive, stop_event, queue, opvars>>

\* the fetches end: on failure nothing is written; else issues.json is written
FsWriteIssues(i) ==
    /\ fs.pc[i] = "fetch"
    /\ \E ok \in BOOLEAN :
         IF ok THEN FsStep(i, "pulls", {Touch("write", IssuesFileOf(fs.name[i], "issues.json"))})
         ELSE FsStep(i, "done", {})
    /\ UNCHANGED <<pg, tk, ls, ar, exit_code, cfg, opts, nrepos, mainpc, exc, submitted, results,
                   stats, export_dir, archive, stop_event, queue, opvars>>

\* pulls.json is written
FsWritePulls(i) ==
    /\ fs.pc[i] = "pulls"
    /\ FsStep(i, "done", {Touch("write", IssuesFileOf(fs.name[i], "pulls.json"))})
    /\ UNCHANGED <<pg, tk, ls, ar, exit_code, cfg, opts, nrepos, mainpc, exc, submitted, results,
                   stats, export_dir, archive, stop_event, queue, opvars>>

FsNext ==
    \E i \in Ops :
        \/ FsClone(i)
        \/ FsRemove(i)
        \/ FsMkdir(i)
        \/ FsWriteIssues(i)
        \/ FsWritePulls(i)

InitPaths ==
    /\ RunInit({QuietConfig})
    /\ tk = NoClone /\ ls = NoListing /\ ar = NoArchive
    /\ FsInit /\ pg = NoProgress

SpecPaths == InitPaths /\ [][FsNext]_vars

\* ------------------------------------------------- the progress tasks of two operations
\* _export_repo's calls on the progress display for two operations of one run: the task
\* of each operation and the overall task they share. A step of an operation is
\* followed by its outcome only.
\* variant: three steps are declared whatever config.git_gc says
TaskSteps_Three(git_gc) == 3

\* steps = 4 if config.git_gc else 3
TaskSteps(git_gc) == IF git_gc THEN 4 ELSE 3

\* progress.add_task(..., total=n)
NewTask(n) == [total |-> n, completed |-> 0]
\* progress.advance(task)
Advance(t) == [t EXCEPT !.completed = @ + 1]

\* the operations not yet entered; overall_task = progress.add_task(..., total=len(repos))
PgInit ==
    pg \in [git_gc : BOOLEAN, skip_issues : BOOLEAN, stop : {FALSE},
            pc : [Ops -> {"enter"}], task : [Ops -> {NewTask(0)}],
            overall : {NewTask(Cardinality(Ops))}, result : [Ops -> {"none"}]]

\* stop_event.set()
PgStop ==
    /\ ~pg.stop
    /\ pg' = [pg EXCEPT !.stop = TRUE]
    /\ UNCHANGED <<fs, tk, ls, ar, exit_code, cfg, opts, nrepos, mainpc, exc, submitted, results,
                   stats, export_dir, archive, stop_event, queue, opvars>>

\* task = progress.add_task(..., total=steps)
PgEnter(i) ==
    /\ pg.pc[i] = "enter"
    /\ pg' = [pg EXCEPT !.pc[i] = "clone", !.task[i] = NewTask(TaskSteps(pg.git_gc))]
    /\ UNCHANGED <<fs, tk, ls, ar, exit_code, cfg, opts, nrepos, mainpc, exc, submitted, results,
                   stats, export_dir, archive, stop_event, queue, opvars>>

\* except ExportCancelled / except Exception: progress.advance(overall_task); return
PgLeave(i, res) ==
    pg' = [pg EXCEPT !.pc[i] = "done", !.overall = Advance(@), !.result[i] = res]

\* _clone_repo(...) returns, is cancelled at a checkpoint, or fails; after it
\* progress.advance(task)
PgClone(i) ==
    /\ pg.pc[i] = "clone"
    /\ \E o \in {"ok", "failed"} \cup (IF pg.stop THEN {"cancelled"} ELSE {}) :
         IF o = "ok"
         THEN pg' = [pg EXCEPT !.pc[i] = IF pg.git_gc THEN "gc" ELSE "issues",
                               !.task[i] = Advance(@)]
         ELSE PgLeave(i, o)
    /\ UNCHANGED <<fs, tk, ls, ar, exit_code, cfg, opts, nrepos, mainpc, exc, submitted, results,
                   stats, export_dir, archive, stop_event, queue, opvars>>

\* if config.git_gc: ... progress.advance(task), whether gc ran, failed or was skipped
PgGc(i) ==
    /\ pg.pc[i] = "gc"
    /\ pg' = [pg EXCEPT !.pc[i] = "issues", !.task[i] = Advance(@)]
    /\ UNCHANGED <<fs, tk, ls, ar, exit_code, cfg, opts, nrepos, mainpc, exc, submitted, results,
                   stats, export_dir, archive, stop_event, queue, opvars>>

\* if not config.skip_issues: _export_repo_issues(...) returns, fails (a warning) or is
\* cancelled; then progress.advance(task)
PgIssues(i) ==
    /\ pg.pc[i] = "issues"
    /\ \E o \in {"ok", "warned"} \cup (IF pg.stop /\ ~pg.skip_issues THEN {"cancelled"} ELSE {}) :
         IF o = "cancelled"
         THEN PgLeave(i, o)
         ELSE pg' = [pg EXCEPT !.pc[i] = "finish", !.task[i] = Advance(@)]
    /\ UNCHANGED <<fs, tk, ls, ar, exit_code, cfg, opts, nrepos, mainpc, exc, submitted, results,
                   stats, export_dir, archive, stop_event, queue, opvars>>

\* Done: progress.advance(task); progress.advance(overall_task); return RepoResult(...)
PgFinish(i) ==
    /\ pg.pc[i] = "finish"
    /\ pg' = [pg EXCEPT !.pc[i] = "done", !.task[i] = Advance(@),
                        !.overall = Advance(@), !.result[i] = "success"]
    /\ UNCHANGED <<fs, tk, ls, ar, exit_code, cfg, opts, nrepos, mainpc, exc, submitted, results,
                   stats, export_dir, archive, stop_event, queue, opvars>>

PgNext ==
    \/ PgStop
    \/ \E i \in Ops :
        \/ PgEnter(i)
        \/ PgClone(i)
        \/ PgGc(i)
        \/ PgIssues(i)
        \/ PgFinish(i)

InitProgress ==
    /\ RunInit({QuietConfig})
    /\ tk = NoClone /\ ls = NoListing /\ ar = NoArchive
    /\ fs = NoPaths /\ PgInit

SpecProgress == InitProgress /\ [][PgNext]_vars

\* ------------------------------------------------------------------- properties
\* every text one clone step surfaces: the exception that left _clone_repo, the error
\* string of the RepoResult, and the log messages
SurfacedTexts == {tk.raised, tk.error} \cup tk.logs

\* C1: once a clone has failed with its retries exhausted, no surfaced text (the
\* exception raised by the clone step, the error string of the result, any retry or
\* failure log message) contains the literal token, whatever git wrote to its output.
C1_NoTokenInSurfacedText ==
    tk.raised # <<>> => \A text \in SurfacedTexts : ~Contains(text, tk.token)

\* errors with which a step of a Repository Operation can end
StepErrors == {"CloneError", "Unexpected", "CalledProcessError"}
\* run_export dispatched operations: non-empty filtered list, not a dry run
Dispatched == nrepos > 0 /\ ~cfg.dry_run
ReturnedAfterDispatch == mainpc = "returned" /\ Dispatched

\* C2: a Repository Operation that fails (clone retries exhausted, or an unanticipated
\* exception in a step) ends with a failure RepoResult, never with an exception in its
\* future; what run_export raises is never an operation's error; when run_export
\* returns, every repository's operation has run to its own result; and with
\* compression enabled the archive has then been written.
C2_FailureBecomesResult ==
    /\ \A r \in RepoIds : pc[r] = "done" => result[r].kind = "RepoResult"
    /\ exc \notin StepErrors
    /\ ReturnedAfterDispatch =>
         /\ \A r \in Repos : pc[r] = "done" /\ r \in Collected
         /\ opts.compress => archive = "complete"

\* a run with one operation failed by exhausted clone retries and another succeeded,
\* returned with its archive written
C2_Witness ==
    /\ ReturnedAfterDispatch
    /\ opts.compress /\ archive = "complete"
    /\ \E r1, r2 \in Repos :
         /\ result[r1].kind = "RepoResult" /\ result[r1].error = "CloneError"
         /\ result[r2].kind = "RepoResult" /\ result[r2].success

\* sum of f[r] over the repositories r of the finite set S
RECURSIVE SumOver(_, _)
SumOver(S, f) ==
    IF S = {} THEN 0
    ELSE LET r == CHOOSE x \in S : TRUE IN f[r] + SumOver(S \ {r}, f)

Succeeded == {r \in Repos : result[r].kind = "RepoResult" /\ result[r].success}
Failed == {r \in Repos : result[r].kind = "RepoResult" /\ ~result[r].success}

\* C3: when run_export returns after dispatching, exactly one RepoResult was collected
\* per repository, repos_cloned + repos_failed = repos_total, failed_repos has
\* repos_failed entries and holds exactly the failed repositories, and issues_exported
\* and pulls_exported are the sums of the counts of the successful results.
C3_StatsMatchResults ==
    ReturnedAfterDispatch =>
        /\ Len(results) = nrepos
        /\ \A r \in Repos : Cardinality({i \in 1..Len(results) : results[i] = result[r]}) = 1
        /\ stats.repos_total = nrepos
        /\ stats.repos_cloned + stats.repos_failed = stats.repos_total
        /\ stats.repos_cloned = Cardinality(Succeeded)
        /\ Len(stats.failed_repos) = stats.repos_failed
        /\ {stats.failed_repos[i] : i \in 1..Len(stats.failed_repos)} = Failed
        /\ stats.issues_exported = SumOver(Succeeded, [r \in Repos |-> result[r].issues_count])
        /\ stats.pulls_exported = SumOver(Succeeded, [r \in Repos |-> result[r].pulls_count])

\* a returned run with a failure, and a success that exported issues and pull requests
C3_Witness ==
    /\ ReturnedAfterDispatch
    /\ stats.repos_failed >= 1
    /\ stats.repos_cloned >= 1
    /\ stats.issues_exported > 0
    /\ stats.pulls_exported > 0

\* C4: at most config.workers Repository Operations are active (started and not yet
\* finished) at the same time, in every reachable state.
C4_AtMostWorkersActive == ActiveCount <= cfg.workers

\* more repositories than workers: the pool is full while a call is still queued
C4_Witness ==
    /\ nrepos > cfg.workers
    /\ ActiveCount = cfg.workers
    /\ queue # <<>>

C5_Always ==
    stop_event =>
        /\ mainpc \in {"kbd_shutdown", "exit_wait", "raised"}
        /\ exc = "KeyboardInterrupt"
        /\ ~opts.read
        /\ archive = "absent"

C5_Step ==
    /\ (mainpc = "collect" /\ exc' = "KeyboardInterrupt") => stop_event'
    /\ stop_event => stop_event'
    /\ \A r \in RepoIds :
         /\ (stop_event /\ pc'[r] \in ProcessPcs) => pc'[r] = pc[r]
         /\ (pc[r] \in ProcessPcs /\ mainpc' # mainpc) => (pc'[r] = pc[r] /\ result'[r] = result[r])
    /\ (mainpc' = "raised" /\ mainpc # "raised") => \A r \in RepoIds : pc[r] \notin ProcessPcs

\* C5: an interruption of the collection loop sets the cancellation signal, which stays
\* set; while it is set no operation launches a clone, gc or fetch process (so none that
\* had not started does); no step of run_export ends a running process, and run_export
\* leaves only once none is running; and run_export ends by raising KeyboardInterrupt,
\* without reading the archival options and without an archive.
C5_InterruptCancels == []C5_Always /\ [][C5_Step]_vars

\* after the interruption: the signal is set, an external process is still running, an
\* operation that had not started has been cancelled
C5_Witness ==
    /\ stop_event
    /\ mainpc = "exit_wait"
    /\ \E r1, r2 \in Repos : pc[r1] \in ProcessPcs /\ pc[r2] = "cancelled"

\* C6: the run directory is removed only with compression enabled and keep_dir false,
\* after the archive was written and its size recorded; with keep_dir, or with
\* compression disabled, it is present when run_export returns; with compression
\* disabled there is never an archive.
C6_RemovalOnlyAfterArchive ==
    /\ export_dir = "removed" =>
         /\ opts.compress /\ ~opts.keep_dir
         /\ archive = "complete"
         /\ stats.bytes_compressed > 0
    /\ (ReturnedAfterDispatch /\ (opts.keep_dir \/ ~opts.compress)) => export_dir = "present"
    /\ ~opts.compress => archive = "absent"

\* run_export returned having removed the run directory
C6_Witness ==
    /\ mainpc = "returned"
    /\ export_dir = "removed"
    /\ archive = "complete"

\* C7: a partly written archive exists only while the Archive Writer runs; when a failure
\* of the archival (an error in the writer, or an interruption during compression)
\* leaves run_export, the archive path does not exist and the run directory is intact;
\* the failure is raised, never turned into a normal return.
C7_FailedArchivalCleansUp ==
    /\ archive = "partial" => mainpc = "compressing"
    /\ (opts.compress /\ mainpc = "raised") =>
         /\ archive = "absent"
         /\ export_dir = "present"
         /\ exc \in {"OSError", "ArchiveError", "KeyboardInterrupt"}
    /\ (opts.compress /\ mainpc = "returned") => archive = "complete"

\* the writer failed partway and the error left run_export
C7_Witness ==
    /\ opts.compress
    /\ mainpc = "raised"
    /\ exc = "ArchiveError"

ClonePcs == {"clone_check", "clone_run", "clone_sleep"}

C8_Always ==
    \A r \in RepoIds :
        /\ pc[r] \in ClonePcs => attempt[r] \in 1..CloneAttempts
        /\ pc[r] = "clone_sleep" =>
             (attempt[r] < CloneAttempts /\ IsCalledProcessError(outcome[r]))

C8_Step ==
    \A r \in RepoIds :
        /\ (pc[r] = "queued" /\ pc'[r] = "clone_check") => attempt'[r] = 1
        /\ (pc[r] = "clone_sleep" /\ pc'[r] = "clone_check") => attempt'[r] = attempt[r] + 1
        /\ (pc'[r] = "clone_run" /\ pc[r] # "clone_run") =>
             (pc[r] = "clone_check" /\ attempt'[r] = attempt[r])
        /\ (pc[r] = "clone_run" /\ pc'[r] # "clone_run") =>
             \/ dest'[r] = "complete" /\ pc'[r] \notin ClonePcs
             \/ pc'[r] = "clone_sleep" /\ dest'[r] # "complete"
             \/ /\ pc'[r] = "done" /\ dest'[r] # "complete"
                /\ ~result'[r].success
                /\ result'[r].error \in {"CloneError", "Unexpected"}
                /\ result'[r].error = "CloneError" => attempt[r] = CloneAttempts

\* C8: git clone is run in attempts numbered 1, 2, 3 and no more; a successful attempt
\* ends the clone step; a wait (hence a further attempt) follows only an attempt that
\* ended with CalledProcessError and was not the third, so there are at most two waits;
\* any other error ends the step at once; a failed third attempt ends the operation with
\* the failure.
C8_CloneRetries == []C8_Always /\ [][C8_Step]_vars

\* three attempts failed and the failure is the operation's result
C8_Witness ==
    \E r \in Repos :
        /\ pc[r] = "done"
        /\ ~result[r].success
        /\ result[r].error = "CloneError"
        /\ dest[r] = "absent"

IssuePcs == {"iss_check", "fetch_issues", "iss_check2", "fetch_pulls", "iss_sleep"}
IssueCheckpoints == {"iss_check", "iss_check2", "iss_sleep"}

\* the step in which repository r's operation ends, taken in its issue/PR step
EndsInIssueStep(r) ==
    /\ ~cfg.skip_issues
    /\ pc'[r] = "done"
    /\ \/ pc[r] \in IssuePcs \cup {"gc_check", "gc_run", "gc_warn"}
       \/ pc[r] = "clone_run" /\ dest'[r] = "complete"

C9_Step ==
    \A r \in RepoIds :
        /\ EndsInIssueStep(r) =>
             LET res == result'[r] IN
             /\ res.kind = "RepoResult"
             /\ res.success \/ res.error = "Cancelled"
             /\ res.success =>
                  IF issue_files'[r] = "both"
                  THEN res.issues_count = IssueCount(r) /\ res.pulls_count = PullCount(r)
                  ELSE res.issues_count = 0 /\ res.pulls_count = 0
             /\ res.error = "Cancelled" <=> (stop_event /\ pc[r] \in IssueCheckpoints)
        /\ (stop_event /\ pc[r] \in IssueCheckpoints /\ pc'[r] # pc[r]) =>
             (pc'[r] = "done" /\ result'[r] = CancelledResult(r))

\* C9: an operation that ends in its issue/PR step ends with a success whose counts are
\* zero unless both files were written, or, exactly when the step observes the
\* cancellation signal at a checkpoint, with the Cancelled failure; it never ends with
\* another failure, and an observed signal never gives a success.
C9_IssueFailureStillSuccess == [][C9_Step]_vars

\* the issue/PR export failed after its directory was made: a success with zero counts
C9_Witness ==
    /\ ~cfg.skip_issues
    /\ \E r \in Repos :
         /\ pc[r] = "done"
         /\ issue_files[r] = "dir"
         /\ result[r].success
         /\ result[r].issues_count = 0 /\ result[r].pulls_count = 0

\* C10: with skip_issues no operation is ever in the issue/PR step, nothing is written
\* under issues/, every result has zero counts, and the statistics have
\* issues_exported = 0 and pulls_exported = 0.
C10_SkipIssuesFetchesNothing ==
    cfg.skip_issues =>
        /\ \A r \in RepoIds :
             /\ pc[r] \notin IssuePcs
             /\ issue_files[r] = "absent"
             /\ issues[r] = 0
             /\ result[r].kind = "RepoResult" =>
                  (result[r].issues_count = 0 /\ result[r].pulls_count = 0)
        /\ stats.issues_exported = 0
        /\ stats.pulls_exported = 0

\* a returned run with skip_issues in which two clones succeeded
C10_Witness ==
    /\ cfg.skip_issues
    /\ mainpc = "returned"
    /\ stats.repos_cloned >= 2

\* nothing of a run exists on disk and no Repository Operation was submitted
NothingDone ==
    /\ Layout(export_dir) = {}
    /\ export_dir = "absent"
    /\ archive = "absent"
    /\ submitted = 0
    /\ queue = <<>>
    /\ \A r \in RepoIds :
         pc[r] = "unsubmitted" /\ dest[r] = "absent" /\ issue_files[r] = "absent"

\* list_repos and _filter_repos have returned
Listed == mainpc # "list" /\ exc = "None"

\* C11: when the filtered list is empty, run_export has returned as soon as the listing
\* is over, every statistic is zero, no run directory, metadata file or archive
\* exists, and no Repository Operation was started.
C11_EmptyListReturnsAtOnce ==
    (Listed /\ nrepos = 0) =>
        /\ mainpc = "returned"
        /\ stats = ExportStats
        /\ NothingDone

\* a run that is not a dry run returned on an empty list
C11_Witness ==
    /\ mainpc = "returned"
    /\ nrepos = 0
    /\ ~cfg.dry_run

\* C12: in a dry run nothing is ever created or run (no directory, no file, no clone,
\* gc, fetch or archival), and once the listing is over run_export has returned with
\* repos_total equal to the size of the filtered list and every other statistic zero.
C12_DryRunTouchesNothing ==
    cfg.dry_run =>
        /\ NothingDone
        /\ ~opts.read
        /\ Listed =>
             /\ mainpc = "returned"
             /\ stats = [ExportStats EXCEPT !.repos_total = nrepos]

\* a dry run over a non-empty filtered list has returned
C12_Witness ==
    /\ cfg.dry_run
    /\ mainpc = "returned"
    /\ nrepos > 0
    /\ stats.repos_total = nrepos

FullLayout == {"dir", "repos", "issues", "metadata.json"}

\* C13: whenever a Repository Operation has been submitted the run directory was made
\* in full (the directory, repos/, issues/ and metadata.json), and it is there in full
\* while any operation is active, so before and during every clone attempt.
C13_LayoutBeforeClone ==
    /\ submitted > 0 => export_dir \in {"present", "removed"}
    /\ \A r \in RepoIds :
         pc[r] \in ActivePcs \cup {"queued"} => Layout(export_dir) = FullLayout

\* the first clone attempt of a repository is running
C13_Witness ==
    \E r \in Repos :
        /\ pc[r] = "clone_run"
        /\ attempt[r] = 1
        /\ Layout(export_dir) = FullLayout

\* the order-insensitive content of the statistics: the five counts and the set of
\* failed names
StatsCounts(s) ==
    [repos_total |-> s.repos_total, repos_cloned |-> s.repos_cloned,
     repos_failed |-> s.repos_failed, issues_exported |-> s.issues_exported,
     pulls_exported |-> s.pulls_exported,
     failed_repos |-> {s.failed_repos[i] : i \in 1..Len(s.failed_repos)}]

\* the statistics run_export computes from the results rs of a list of n repositories
StatsOf(n, rs) == AggregateStats([ExportStats EXCEPT !.repos_total = n], rs)

\* the collected results in another order
Reordered(rs, p) == [i \in 1..Len(rs) |-> rs[p[i]]]

\* C14: each repository having the result it has, the counts run_export returns and the
\* set of names in failed_repos are those of the results taken in any order: in any
\* other completion order, and in the order of any permutation of the repository list.
C14_StatsIndependentOfOrder ==
    ReturnedAfterDispatch =>
        \A p \in Permutations(1..Len(results)) :
            StatsCounts(StatsOf(nrepos, Reordered(results, p))) = StatsCounts(stats)

\* the operations completed in an order that is not the list's, with a failure and a
\* success among them
C14_Witness ==
    /\ ReturnedAfterDispatch
    /\ Len(results) >= 2
    /\ results[1].repo # 1
    /\ results[1].success # results[2].success

\* C15: for every listing and every combination of skip_forks, skip_archived and
\* visibility, the filter applied to its own output gives that output again.
C15_FilterIdempotent == ls.pc = "refiltered" => ls.again = ls.repos

\* the filter was applied twice to a list of which it removed some and kept some
C15_Witness ==
    /\ ls.pc = "refiltered"
    /\ ls.config.only_repos = {}
    /\ Len(ls.repos) >= 1
    /\ Len(ls.repos) < Len(ls.listing)

\* a repository that the fork, archived and visibility settings let through
Kept(r, c) ==
    /\ c.skip_forks => ~r.is_fork
    /\ c.skip_archived => ~r.is_archived
    /\ c.visibility = "public" => ~r.is_private
    /\ c.visibility = "private" => r.is_private

SeqRange(q) == {q[i] : i \in 1..Len(q)}

\* C20: with a non-empty allow-list the repositories considered are exactly the listed
\* ones whose name is in the allow-list and that pass the filters, each once and in the
\* order of the listing; names of the allow-list that are not listed change nothing;
\* repos_total is the number of these repositories.
C20_AllowListSelectsListed ==
    (ls.pc \in {"filtered", "refiltered"} /\ ls.config.only_repos # {}) =>
        LET want == {r \in SeqRange(ls.listing) :
                        r.name \in ls.config.only_repos /\ Kept(r, ls.config)}
        IN  /\ SeqRange(ls.repos) = want
            /\ Len(ls.repos) = Cardinality(want)
            /\ \A i, j \in 1..Len(ls.repos) : i < j => ls.repos[i].name < ls.repos[j].name
            /\ ls.repos_total = Cardinality(want)

\* a two-repository listing and an allow-list naming one of them and a name that is not
\* listed: repos_total = 1
C20_Witness ==
    /\ ls.pc = "filtered"
    /\ Len(ls.listing) = 2
    /\ \E n \in ls.config.only_repos : n > Len(ls.listing)
    /\ Cardinality(ls.config.only_repos) = 2
    /\ ls.repos_total = 1

\* every file of the tree c, under root
RECURSIVE FilesOf(_, _)
FilesOf(c, root) ==
    {Append(root, n) : n \in FilesIn(c)}
        \cup UNION {FilesOf(c[n].entries, Append(root, n)) : n \in DirsIn(c)}

\* every directory below the top of the tree c that has no entry
RECURSIVE EmptyDirsOf(_, _)
EmptyDirsOf(c, root) ==
    {Append(root, n) : n \in {m \in DirsIn(c) : IsEmptyDir(c[m].entries)}}
        \cup UNION {EmptyDirsOf(c[n].entries, Append(root, n)) : n \in DirsIn(c)}

MemberPaths(a) == {m.path : m \in a.members}

\* C16: whichever of the three formats is chosen, the member paths of the archive are
\* the paths, relative to the parent of the source directory, of every file and every
\* empty directory of the source tree, so they are those any other format gives.
C16_SameMembersForEveryFormat ==
    ar.pc \in {"archived", "verified"} =>
        /\ MemberPaths(ar.file) =
               FilesOf(ar.tree, <<SourceName>>) \cup EmptyDirsOf(ar.tree, <<SourceName>>)
        /\ \A fmt \in ArchiveFormats :
               MemberPaths(CompressDirectory(ar.tree, fmt)) = MemberPaths(ar.file)

\* C17: for each format and every source tree, verifying the archive that
\* compress_directory wrote succeeds and counts at least as many members as the tree
\* has files.
C17_VerifyCountsEveryFile ==
    ar.pc = "verified" =>
        /\ ar.verified.ok
        /\ ar.verified.count >= Cardinality(FilesOf(ar.tree, <<SourceName>>))

\* a gz archive of a tree with a file at the top and a file in a directory was verified
C17_Witness ==
    /\ ar.pc = "verified"
    /\ ar.fmt = "gz"
    /\ \E n \in FilesIn(ar.tree) : TRUE
    /\ \E n \in DirsIn(ar.tree) : FilesIn(ar.tree[n].entries) # {}
    /\ ar.verified.count >= 2

\* C18: the exit code of the export command tells how run_export ended: 0 exactly when
\* it returned with repos_failed = 0, 2 exactly when it returned with repos_failed > 0,
\* 130 exactly when it raised KeyboardInterrupt, 1 exactly when it raised anything else
\* (so the three non-success codes never coincide).
C18_ExitCodeTellsHowRunEnded ==
    exit_code # <<>> =>
        LET code == exit_code[1] IN
        /\ code \in {0, 1, 2, 130}
        /\ code = 0 <=> (mainpc = "returned" /\ stats.repos_failed = 0)
        /\ code = 2 <=> (mainpc = "returned" /\ stats.repos_failed > 0)
        /\ code = 130 <=> (mainpc = "raised" /\ exc = "KeyboardInterrupt")
        /\ code = 1 <=> (mainpc = "raised" /\ exc # "KeyboardInterrupt")

\* the command exited with 2 after a run that returned with a failed repository
C18_Witness ==
    /\ exit_code = <<2>>
    /\ mainpc = "returned"
    /\ stats.repos_failed > 0

\* a worker count brought into the range of the --workers option
Clamp(w) == IF w < WorkersMin THEN WorkersMin ELSE IF w > WorkersMax THEN WorkersMax ELSE w

\* C19: for every configuration the pool is made, with the configured worker count
\* clamped to [1,32] as its size: making it never fails, and never more operations are
\* active than the clamped count.
C19_PoolSizeIsClampedWorkers ==
    /\ exc # "ValueError"
    /\ mainpc \in {"submit", "collect", "kbd_shutdown", "exit_wait"} =>
         PoolSize(cfg.workers).threads = Clamp(cfg.workers)
    /\ ActiveCount <= Clamp(cfg.workers)

\* C21: when the listing fails, run_export raises that failure, and no run directory,
\* metadata file or archive exists and no Repository Operation was submitted or started;
\* the statistics are untouched.
C21_ListFailurePropagates ==
    exc = "ListError" =>
        /\ mainpc = "raised"
        /\ NothingDone
        /\ stats = ExportStats
        /\ results = <<>>
        /\ exit_code # <<>> => exit_code = <<1>>

\* the listing failed and the command exited with the error code
C21_Witness ==
    /\ exc = "ListError"
    /\ mainpc = "raised"
    /\ exit_code = <<1>>

\* the files of the tree c, each as its path followed by its size
RECURSIVE SizesOf(_)
SizesOf(c) ==
    {<<n>> \o <<c[n].size>> : n \in FilesIn(c)}
        \cup UNION {{<<n>> \o p : p \in SizesOf(c[n].entries)} : n \in DirsIn(c)}

\* what the i-th callback value adds to the one before it
Increment(p, i) == p[i] - (IF i = 1 THEN 0 ELSE p[i - 1])

\* C22: for every format and every source tree, the values given to the progress
\* callback during one compress_directory call never decrease; there is one per file of
\* the tree, each adds to the previous one the size of one file (as many values add a
\* given size as the tree has files of that size), so each is the cumulative size of
\* the files added so far.
C22_ProgressNeverDecreases ==
    ar.pc \in {"archived", "verified"} =>
        LET p == ar.progress
            files == SizesOf(ar.tree)
        IN  /\ \A i, j \in 1..Len(p) : i <= j => p[i] <= p[j]
            /\ Len(p) = Cardinality(files)
            /\ \A i \in 1..Len(p) : Increment(p, i) \in FileSizes
            /\ \A sz \in FileSizes :
                   Cardinality({i \in 1..Len(p) : Increment(p, i) = sz})
                       = Cardinality({f \in files : f[Len(f)] = sz})

\* an xz archive of a tree in which a file with bytes is added before an empty file
C22_Witness ==
    /\ ar.pc = "archived"
    /\ ar.fmt = "xz"
    /\ Len(ar.progress) >= 2
    /\ ar.progress[1] > 0
    /\ ar.progress[2] = ar.progress[1]

\* the positions at which an operation is about to start a step: the clone, the gc,
\* the issue/PR export
StepCheckpoints == {"clone_check", "gc_check", "iss_check"}

C23_Step ==
    \A r \in RepoIds :
        (stop_event /\ pc[r] \in StepCheckpoints /\ pc'[r] # pc[r]) =>
            /\ pc'[r] = "done"
            /\ result'[r] = CancelledResult(r)
            /\ dest'[r] = dest[r]
            /\ issue_files'[r] = issue_files[r]

\* C23: for every combination of git_gc and skip_issues, an operation that is about to
\* start its clone, gc or issue/PR step while the cancellation signal is set ends there:
\* the step is not performed, no later step is entered, nothing is written, and its
\* result is the Cancelled failure.
C23_CancelledAtEveryStep == [][C23_Step]_vars

\* the backoff waits of the two retry loops
SleepPcs == {"clone_sleep", "iss_sleep"}

C24_Step ==
    \A r \in RepoIds :
        /\ (stop_event /\ pc[r] \in SleepPcs /\ pc'[r] # pc[r]) =>
              (pc'[r] = "done" /\ result'[r] = CancelledResult(r))
        /\ (stop_event /\ pc[r] \in SleepPcs) => pc'[r] \notin ProcessPcs
        /\ (stop_event /\ pc[r] \in ClonePcs /\ pc'[r] \in ClonePcs) => attempt'[r] = attempt[r]
        /\ (stop_event /\ pc[r] \in IssuePcs /\ pc'[r] \in IssuePcs) => attempt'[r] = attempt[r]

\* C24: when the cancellation signal is set before or during a backoff wait of the clone
\* loop or of the issue/PR loop, the wait ends by raising the cancellation: the next
\* step of the operation ends it with the Cancelled result, no attempt follows the wait
\* and the attempt number of a loop never changes while the signal is set.
C24_CancelledWaitEndsOperation == [][C24_Step]_vars

\* the signal is set while one operation is in the wait of its issue/PR loop, and
\* another, cancelled after a failed clone attempt, has ended
C24_Witness ==
    /\ stop_event
    /\ \E r1, r2 \in Repos :
         /\ pc[r1] = "iss_sleep"
         /\ pc[r2] = "done" /\ result[r2] = CancelledResult(r2) /\ dest[r2] = "partial"

C25_Step ==
    \A r \in RepoIds :
        /\ (pc'[r] = "fetch_issues" /\ pc[r] # "fetch_issues") => issues[r] = 0
        /\ (pc[r] = "iss_sleep" /\ issues[r] # 0 /\ pc'[r] \in IssuePcs \ {"iss_sleep"}) =>
              pc'[r] = "iss_check2"

\* C25: the issue fetch and the pull-request fetch are retried independently: an issue
\* fetch is never started for a repository whose issue fetch has already succeeded, and
\* the wait that follows a failed pull-request fetch leads to the pull-request fetch
\* again, not to the issue fetch.
C25_FetchesRetriedIndependently == [][C25_Step]_vars

\* C26: whenever an operation has ended with a failure (its clone failed with the
\* retries exhausted, or it was abandoned on cancellation, also after a failed clone
\* attempt), repos/<name>.git of its repository does not exist.
C26_NoCloneLeftAfterFailure ==
    \A r \in RepoIds :
        (pc[r] = "done" /\ result[r].kind = "RepoResult" /\ ~result[r].success) =>
            dest[r] = "absent"

\* how an operation whose gc pass is over goes on: to the issue/PR step, or, with
\* skip_issues (or when issues/<name>/ cannot be made), to its success result
ContinuesAfterGc(r) ==
    IF cfg.skip_issues
    THEN pc'[r] = "done" /\ result'[r] = SuccessResult(r, 0, 0)
    ELSE \/ pc'[r] = "iss_check" /\ attempt'[r] = 1 /\ issue_files'[r] = "dir"
         \/ pc'[r] = "done" /\ result'[r] = SuccessResult(r, 0, 0)

C27_Always ==
    \A r \in RepoIds : pc[r] \in {"gc_run", "gc_warn"} => (cfg.git_gc /\ dest[r] = "complete")

C27_Step ==
    \A r \in RepoIds :
        /\ (pc[r] = "gc_run" /\ pc'[r] # pc[r]) => (pc'[r] = "gc_warn" \/ ContinuesAfterGc(r))
        /\ (pc[r] = "gc_warn" /\ pc'[r] # pc[r]) => ContinuesAfterGc(r)
        /\ pc[r] \in {"gc_run", "gc_warn"} => dest'[r] = dest[r]

\* C27: with git_gc, a gc pass that fails is only warned about: the operation never
\* ends with a failure at its gc step, and after the warning it goes on to the issue/PR
\* step (or, with skip_issues, to its success result) as it does after a gc that
\* succeeded; the clone is kept.
C27_GcFailureIsNotFatal == []C27_Always /\ [][C27_Step]_vars

\* a gc pass has failed on a repository whose issues are to be exported
C27_Witness ==
    /\ ~cfg.skip_issues
    /\ \E r \in Repos : pc[r] = "gc_warn" /\ dest[r] = "complete"

GcPcs == {"gc_check", "gc_run", "gc_warn"}

C28_Always ==
    \A r \in RepoIds :
        /\ pc[r] \in GcPcs => (cfg.git_gc /\ dest[r] = "complete")
        /\ pc[r] \in IssuePcs => (~cfg.skip_issues /\ dest[r] = "complete")
        /\ dest[r] # "complete" => issue_files[r] = "absent"

C28_Step ==
    \A r \in RepoIds :
        /\ (pc'[r] \in GcPcs /\ pc[r] \notin GcPcs) =>
              (pc[r] = "clone_run" /\ pc'[r] = "gc_check" /\ dest'[r] = "complete")
        /\ (pc'[r] = "gc_run" /\ pc[r] # "gc_run") => pc[r] = "gc_check"
        /\ (pc'[r] \in IssuePcs /\ pc[r] \notin IssuePcs) =>
              /\ pc'[r] = "iss_check"
              /\ IF cfg.git_gc
                 THEN pc[r] \in {"gc_run", "gc_warn"} \/ (pc[r] = "gc_check" /\ stop_event)
                 ELSE pc[r] = "clone_run" /\ dest'[r] = "complete"
        /\ (pc'[r] = "fetch_issues" /\ pc[r] # "fetch_issues") =>
              (pc[r] = "iss_check" /\ ~stop_event)
        /\ (pc'[r] = "fetch_pulls" /\ pc[r] # "fetch_pulls") => pc[r] = "iss_check2"
        /\ (pc[r] = "clone_run" /\ dest'[r] # "complete") =>
              pc'[r] \in {"clone_run", "clone_sleep", "done"}
        /\ pc[r] = "done" => pc'[r] = "done"

\* C28: the steps of a repository are taken in order. The gc step is entered only from
\* a clone that succeeded and gc runs only from its checkpoint; the issue/PR step is
\* entered only after the clone succeeded and, with git_gc, once the gc pass is over
\* (or was skipped because the cancellation signal is set, in which case no fetch can
\* start); a fetch starts only from a checkpoint of that step; an operation whose
\* clone failed never enters the gc or the issue/PR step, and nothing is written under
\* issues/ for it.
C28_StepsInOrder == []C28_Always /\ [][C28_Step]_vars

\* with git_gc, one repository is fetching its issues and another has ended with its
\* clone failed
C28_Witness ==
    /\ cfg.git_gc
    /\ \E r1, r2 \in Repos :
         /\ pc[r1] = "fetch_issues" /\ dest[r1] = "complete"
         /\ pc[r2] = "done" /\ result[r2].error = "CloneError" /\ issue_files[r2] = "absent"

\* every RepoResult there is: held by a future, or collected by run_export
RepoResults ==
    {result[r] : r \in {x \in RepoIds : result[x].kind = "RepoResult"}}
        \cup {results[i] : i \in 1..Len(results)}

\* C29: in every RepoResult, success comes with the clone location repos/<name>.git of
\* its repository and no error; failure comes with an error, no clone location and
\* zero issue and pull-request counts.
C29_ResultShape ==
    \A res \in RepoResults :
        IF res.success
        THEN /\ res.clone_path = ClonePath(res.repo)
             /\ res.error = "None"
             /\ res.issues_count >= 0 /\ res.pulls_count >= 0
        ELSE /\ res.error # "None"
             /\ res.clone_path = "None"
             /\ res.issues_count = 0 /\ res.pulls_count = 0

\* a success with counts was collected, and a failure has been produced
C29_Witness ==
    \E r1, r2 \in RepoIds :
        /\ result[r1].kind = "RepoResult" /\ result[r1].success /\ result[r1].pulls_count > 0
        /\ result[r2].kind = "RepoResult" /\ ~result[r2].success
        /\ result[r1] \in {results[i] : i \in 1..Len(results)}

\* out is in without some of its elements: same order, nothing twice, nothing new
IsSubsequence(out, in) ==
    \E f \in [1..Len(out) -> 1..Len(in)] :
        /\ \A i, j \in 1..Len(out) : i < j => f[i] < f[j]
        /\ \A i \in 1..Len(out) : out[i] = in[f[i]]

\* C30: for every list and every configuration, what the filter returns is its input
\* without some elements (original order, no duplicate, no addition), and an element of
\* the input is in it exactly when it is not a fork if skip_forks, not archived if
\* skip_archived, and public (private) if the visibility is public (private).
C30_FilterIsRestriction ==
    ls.pc \in {"filtered", "refiltered"} =>
        LET in == ListReposOnly(ls.listing, ls.config.only_repos)
        IN  /\ IsSubsequence(ls.repos, in)
            /\ \A i \in 1..Len(in) : in[i] \in SeqRange(ls.repos) <=> Kept(in[i], ls.config)

\* private-only with skip_forks kept one repository of a listing of two
C30_Witness ==
    /\ ls.pc = "filtered"
    /\ ls.config.only_repos = {}
    /\ ls.config.visibility = "private"
    /\ ls.config.skip_forks
    /\ Len(ls.listing) = 2
    /\ Len(ls.repos) = 1
    /\ ls.repos[1].name = 2

C31_Always ==
    /\ ls.pc # "written" => ls.metadata = NoMetadata
    /\ ls.pc = "written" =>
         LET m == ls.metadata
             want == SelectSeq(ListReposOnly(ls.listing, ls.config.only_repos),
                               LAMBDA r : Kept(r, ls.config))
         IN  /\ m.repos = want
             /\ \A i, j \in 1..Len(m.repos) : i < j => m.repos[i].name < m.repos[j].name
             /\ m.total_repos = Len(want)
             /\ m.total_repos = ls.repos_total
             /\ m.private_repos + m.public_repos = m.total_repos
             /\ m.private_repos = Cardinality({r \in SeqRange(want) : r.is_private})
             /\ m.fork_repos <= m.total_repos /\ m.archived_repos <= m.total_repos

C31_Step ==
    ls'.metadata # ls.metadata =>
        (ls.pc = "filtered" /\ ls'.pc = "written" /\ ls.metadata = NoMetadata)

C32_Always == mainpc \in {"list", "create_dir", "executor", "submit"} => ~stop_event

C32_Step ==
    /\ stop_event => stop_event'
    /\ (~stop_event /\ stop_event') =>
          /\ mainpc = "collect" /\ mainpc' = "kbd_shutdown"
          /\ UNCHANGED <<queue, opvars>>

\* C32: the cancellation signal is unset when the run starts and until the collection
\* loop; the only step that sets it is run_export's handling of the interruption, a step
\* in which no Repository Operation moves; and once set it stays set.
C32_SignalSetOnceByOrchestrator == []C32_Always /\ [][C32_Step]_vars

\* the run ended on the interruption with the signal still set and an operation cancelled
C32_Witness ==
    /\ stop_event
    /\ exit_code = <<130>>
    /\ \E r \in Repos : pc[r] = "done" /\ result[r] = CancelledResult(r)

\* path p is path q or lies under it
IsUnder(p, q) == Len(q) <= Len(p) /\ SubSeq(p, 1, Len(q)) = q

\* the subtrees repository name owns
OwnedBy(p, name) == IsUnder(p, ClonePathOf(name)) \/ IsUnder(p, IssuesDirOf(name))

\* C33: the names being pairwise distinct, under every interleaving no path that one
\* operation created, wrote or deleted is, or lies under or above, a path that the
\* other touched; each operation touches only repos/<its name>.git and paths under
\* issues/<its name>/.
C33_OperationsTouchDisjointPaths ==
    fs.name[1] # fs.name[2] =>
        /\ \A t1 \in fs.touched[1], t2 \in fs.touched[2] :
               ~IsUnder(t1.path, t2.path) /\ ~IsUnder(t2.path, t1.path)
        /\ \A i \in Ops : \A t \in fs.touched[i] :
               /\ OwnedBy(t.path, fs.name[i])
               /\ \A j \in Ops \ {i} : ~OwnedBy(t.path, fs.name[j])

\* repositories "a" and "a.git": one has written both files, the other has had its
\* failed clone removed
C33_Witness ==
    /\ fs.name[1] = <<"a">> /\ fs.name[2] = <<"a", ".git">>
    /\ fs.pc[1] = "done" /\ Cardinality(fs.touched[1]) = 4
    /\ fs.pc[2] = "done" /\ \E t \in fs.touched[2] : t.what = "delete"

C34_Step ==
    /\ (mainpc = "submit" /\ submitted >= 1 /\ exc # "KeyboardInterrupt"
            /\ exc' = "KeyboardInterrupt") => stop_event'
    /\ exc = "KeyboardInterrupt" =>
          \A r \in RepoIds : pc[r] = "queued" => pc'[r] \in {"queued", "cancelled"}

\* C34: an interruption that arrives while operations are being submitted, after the
\* first submission, sets the cancellation signal, and from the interruption on no
\* operation that was submitted but not started is started.
C34_InterruptDuringSubmitCancels == [][C34_Step]_vars

\* the positions of run_export in its archival phase
ArchivalPcs == {"compress", "compressing", "compressed", "rmtree"}

\* C35: once the cancellation signal is set, run_export never returns statistics and
\* never starts the archival: it can only end by raising the interruption (exit code
\* 130), with the statistics not aggregated; so whenever run_export has returned, no
\* Cancelled result exists, collected or not, and none is counted.
C35_NoReturnAfterCancellation ==
    /\ stop_event =>
         /\ mainpc \notin {"returned"} \cup ArchivalPcs
         /\ mainpc = "raised" => exc = "KeyboardInterrupt"
         /\ stats = [ExportStats EXCEPT !.repos_total = nrepos]
         /\ exit_code \in {<<>>, <<130>>}
    /\ mainpc \in {"returned"} \cup ArchivalPcs =>
         /\ \A i \in 1..Len(results) : results[i].error # "Cancelled"
         /\ \A r \in RepoIds : result[r].kind = "RepoResult" => result[r].error # "Cancelled"

\* the run was interrupted after a result had been collected, an operation was
\* cancelled, and the interruption has left run_export
C35_Witness ==
    /\ stop_event
    /\ mainpc = "raised"
    /\ Len(results) >= 1
    /\ \E r \in Repos : result[r] = CancelledResult(r)

\* C36: when an operation has ended, issues/<repo>/ holds issues.json exactly when it
\* holds pulls.json; it holds them only if the operation succeeded with the counts of
\* both fetches; an issue/PR export that failed or was cancelled left neither file.
C36_BothFilesOrNeither ==
    \A r \in RepoIds :
        pc[r] = "done" =>
            /\ issue_files[r] \in {"absent", "dir", "both"}
            /\ issue_files[r] = "both" =>
                  result[r] = SuccessResult(r, IssueCount(r), PullCount(r))

\* run_export has ended
Ended == mainpc \in {"returned", "raised"}

C37_Always ==
    /\ \A r \in RepoIds : attempt[r] <= CloneAttempts /\ attempt[r] <= FetchAttempts
    /\ Ended => (queue = <<>> /\ ActiveCount = 0)

\* C37: every external process ending, an operation that was submitted ends with a
\* result (or is cancelled before it starts), never making more than three attempts in
\* a retry loop; run_export returns or raises; and when it has ended, after an
\* interruption too, no operation is queued or in flight.
C37_EveryOperationAndRunEnds ==
    /\ []C37_Always
    /\ \A r \in RepoIds : (pc[r] \in ActivePcs \cup {"queued"}) ~> (pc[r] \in {"done", "cancelled"})
    /\ <>Ended

\* an interrupted run has ended with an operation that ran to its result after the
\* interruption and another that never started
C37_Witness ==
    /\ mainpc = "raised"
    /\ exc = "KeyboardInterrupt"
    /\ \E r1, r2 \in Repos : pc[r1] = "done" /\ r1 \notin Collected /\ pc[r2] = "cancelled"

C38_Always ==
    /\ pg.overall.completed <= pg.overall.total
    /\ pg.overall.completed = Cardinality({i \in Ops : pg.result[i] # "none"})
    /\ \A i \in Ops :
         /\ pg.task[i].completed <= pg.task[i].total
         /\ pg.pc[i] = "done" <=> pg.result[i] # "none"
         /\ pg.result[i] = "success" =>
               /\ pg.task[i].total = (IF pg.git_gc THEN 4 ELSE 3)
               /\ pg.task[i].completed = pg.task[i].total
         /\ pg.result[i] \in {"cancelled", "failed"} => pg.task[i].completed < pg.task[i].total

C38_Step ==
    \A i \in Ops :
        /\ (pg.pc[i] # "done" /\ pg'.pc[i] = "done") =>
              pg'.overall.completed = pg.overall.completed + 1
        /\ pg'.pc[i] = pg.pc[i] => pg'.task[i] = pg.task[i]

\* C38: an operation advances the overall task exactly once, in the step in which it
\* ends (with a success, a cancellation or a failure), so the overall count is the
\* number of operations that have ended; a success has advanced its own task exactly
\* its declared number of steps (4 with git_gc, 3 without), any other end fewer; no
\* counter ever exceeds its total.
C38_ProgressCountsMatch == []C38_Always /\ [][C38_Step]_vars

\* with git_gc and skip_issues, one operation has succeeded with 4 of 4 steps and the
\* other was cancelled
C38_Witness ==
    /\ pg.git_gc /\ pg.skip_issues
    /\ pg.overall.completed = 2
    /\ \E i, j \in Ops :
         /\ pg.result[i] = "success" /\ pg.task[i].completed = 4
         /\ pg.result[j] = "cancelled"

====
